---- MODULE Spec2Model ----
(***************************************************************************)
(* Model of the request-gating and token-lifecycle layer of the web-rag   *)
(* services: the auth service (backend/auth_service/main.py), its         *)
(* SecurityMiddleware (backend/auth_service/security/middleware.py) and   *)
(* the API gateway (backend/api_gateway/main.py).                         *)
(*                                                                         *)
(* Time is a clock `now` counted in minutes.  The stores (MongoDB          *)
(* collections, Redis keys with their expiry) are variables.  Every        *)
(* handler is one action; a store call that raises is an input of the      *)
(* action (the set of failing calls), because the code has an except       *)
(* branch for each of them.                                                *)
(***************************************************************************)
EXTENDS Bags, Integers, Sequences, FiniteSets, TLC

(***************************************************************************)
(* Program constants                                                       *)
(***************************************************************************)
ACCESS_TOKEN_EXPIRE == 15
REFRESH_TOKEN_EXPIRE == 7
RATE_LIMIT_WINDOW == 900
LOGIN_RATE_LIMIT == 5
REGISTER_RATE_LIMIT == 3
IP_BLOCK_THRESHOLD == 10
\* ex=24 * 60 * 60 of revoke_token and ex=7 * 24 * 60 * 60 of
\* store_refresh_token, in seconds
REVOKED_TTL_SECONDS == 86400
REFRESH_KEY_TTL_SECONDS == 604800
ENVIRONMENT == "production"

\* unit conversions to the clock's minutes
SecondsToMinutes(s) == s \div 60
DaysToMinutes(d) == d * 24 * 60

(***************************************************************************)
(* Bounds of the model                                                     *)
(***************************************************************************)
MaxJti == 6
MaxTicks == 2
MaxGwLogins == 7

\* steps by which the clock advances: just below / up to the access-token
\* lifetime and the rate window, and one revocation-entry lifetime
TickSteps == {1, 14, 1440}

Emails == {"a@x", "b@x"}
ClientIps == {"10.0.0.1"}
GatewayHost == "gateway"

(***************************************************************************)
(* State                                                                   *)
(***************************************************************************)
VARIABLES
  now,               \* wall clock, minutes
  ticks,             \* number of clock steps taken (bounds the clock)
  nextJti,           \* source of fresh token ids (secrets.token_hex)
  users_collection,  \* MongoDB users: set of user documents
  tokens_collection, \* MongoDB refresh_tokens: set of token records
  revoked,           \* Redis keys revoked:{jti}: set of [key, exp]
  refreshKeys,       \* Redis keys refresh:{jti}: set of [key, exp]
  rate,              \* Redis keys rate:{ip}:{path}: <<ip,path>> -> [count, exp]
  block,             \* Redis keys block:{ip}: ip -> expiry (0 = absent)
  issued,            \* every token handed to a client so far
  rotated,           \* refresh tokens a successful refresh call presented
  ended,             \* refresh tokens whose logout has completed or whose
                     \* user's password change has succeeded
  revokeDone,        \* jti values for which revoke_token has completed
  last,              \* SecurityMiddleware's last request and response
  hres,              \* the last auth-service handler call and its result
  gw,                \* the gateway's last request and response
  gwLogins,          \* gateway login requests of the current window
  win,               \* per rate key, for its current window: the number of
                     \* _check_rate_limit calls, whether every store call
                     \* answered and no block was live; and whether a call
                     \* was refused before
  procs,             \* concurrent refresh calls: their position and locals
  llm,               \* LLM service: response cache, daily request counter,
                     \* requests served, and the last /process response
  conv,              \* conversation service: threads and its last response
  chat,              \* the gateway's chat turn: calls made and its response
  limiter,           \* _check_rate_limit calls in progress between their store
                     \* calls, admissions by the counter per key since the
                     \* key was created, and the last call that returned
  calc               \* the last call of a helper function: its name, its
                     \* argument and what it returned

vars == <<now, ticks, nextJti, users_collection, tokens_collection, revoked,
          refreshKeys, rate, block, issued, rotated, ended, revokeDone, last, hres, gw,
          gwLogins, win, procs, llm, conv, chat, limiter, calc>>

(***************************************************************************)
(* Tokens (security/middleware.py, create_access_token and                 *)
(* create_refresh_token).  A token is its claims plus the signature.       *)
(***************************************************************************)
NoJti == <<"none", 0>>
Jti(n) == <<"jti", n>>

NoUid == <<"uid", "">>
UserId(email) == <<"uid", email>>

NoToken == [sub |-> "", jti |-> NoJti, type |-> "none", user_id |-> NoUid,
            exp |-> 0, iat |-> 0, sig |-> "none"]
NoUser == [sub |-> "", jti |-> NoJti, type |-> "none", user_id |-> NoUid,
           exp |-> 0, iat |-> 0]

create_access_token(subject, user_id, n, t) ==
  [sub |-> subject, jti |-> Jti(n), type |-> "access", user_id |-> user_id,
   exp |-> t + ACCESS_TOKEN_EXPIRE, iat |-> t, sig |-> "ok"]

create_refresh_token(subject, user_id, n, t) ==
  [sub |-> subject, jti |-> Jti(n), type |-> "refresh", user_id |-> user_id,
   exp |-> t + DaysToMinutes(REFRESH_TOKEN_EXPIRE), iat |-> t, sig |-> "ok"]

\* the payload of a decoded token: the claims without the signature
Claims(tok) == [sub |-> tok.sub, jti |-> tok.jti, type |-> tok.type,
                user_id |-> tok.user_id, exp |-> tok.exp, iat |-> tok.iat]

\* refresh_token.split(".")[1]: the second dot-separated segment of the JWT,
\* i.e. the encoded payload, a string that is not the jti claim
SplitSegment1(tok) == <<"payload", tok.jti[2]>>

\* jwt.decode: signature check, then exp (expired iff exp < now)
JwtDecodes(tok, t) == tok.sig = "ok" /\ ~(tok.exp < t)

\* a Redis key set with ex=... is readable until its expiry
Live(exp, t) == t < exp

RevokedLive(x, t) == \E e \in revoked : e.key = x /\ Live(e.exp, t)

(***************************************************************************)
(* SecurityMiddleware (security/middleware.py)                             *)
(***************************************************************************)
NoCsrf == "<absent>"

skip_csrf_paths == {"/health", "/api/health", "/api/auth/login",
                    "/api/auth/register", "/api/auth/csrf-token",
                    "/csrf-token", "/test"}

skip_auth_paths == {"/health", "/api/health", "/api/auth/login",
                    "/api/auth/register", "/api/auth/refresh",
                    "/api/auth/csrf-token", "/api/auth/request-reset",
                    "/api/auth/reset-password", "/csrf-token", "/login",
                    "/register", "/test"}

rate_limit_paths == [p \in {"/api/auth/login", "/api/auth/register",
                            "/api/auth/request-reset"} |->
                       CASE p = "/api/auth/login" -> LOGIN_RATE_LIMIT
                         [] p = "/api/auth/register" -> REGISTER_RATE_LIMIT
                         [] OTHER -> LOGIN_RATE_LIMIT]

CsrfMethods == {"POST", "PUT", "PATCH", "DELETE"}

SecurityHeaders == {"X-Content-Type-Options", "X-Frame-Options",
                    "X-XSS-Protection", "Strict-Transport-Security",
                    "Content-Security-Policy", "Referrer-Policy"}

\* the Redis calls of _check_rate_limit that may raise
RateOps == {"block_get", "rate_get", "block_set", "rate_set", "rate_incr",
            "rate_expire"}

_get_client_ip(req) == IF req.xff # "" THEN req.xff ELSE req.peer

RateCount(ip, path, t) ==
  IF Live(rate[<<ip, path>>].exp, t) THEN rate[<<ip, path>>].count ELSE 0

\* mutant: the comparison off by one
OverLimit_strict(count, limit) == count > limit

\* if count >= limit: refuse
OverLimit(count, limit) == count >= limit

\* mutant: a failing counter store refuses the request
RateLimitErrorVerdict_closed == FALSE

\* "Allow the request if rate limit check fails": the except branches of the
\* counter calls fall through to return True
RateLimitErrorVerdict == TRUE

\* the Redis calls of one _check_rate_limit call that are reached and raise;
\* "no_redis" in errs: self.redis is None, no call is made
RateRaised(req, limit, errs, t) ==
  LET ip == _get_client_ip(req)
      count == RateCount(ip, req.path, t)
      afterBlock == ~("block_get" \notin errs /\ Live(block[ip], t))
      counted == afterBlock /\ "rate_get" \notin errs
  IN IF "no_redis" \in errs THEN {}
     ELSE errs \cap
       ({"block_get"}
        \cup (IF afterBlock THEN {"rate_get"} ELSE {})
        \cup (IF /\ counted /\ OverLimit(count, limit)
                  /\ req.path = "/api/auth/login" /\ count >= IP_BLOCK_THRESHOLD
                 THEN {"block_set"} ELSE {})
        \cup (IF counted /\ ~OverLimit(count, limit) /\ count = 0
                 THEN {"rate_set"} ELSE {})
        \cup (IF counted /\ ~OverLimit(count, limit) /\ count # 0
                 THEN {"rate_incr"} \cup
                      (IF "rate_incr" \notin errs THEN {"rate_expire"} ELSE {})
                 ELSE {}))

\* result of one call: the verdict and the counter store afterwards
_check_rate_limit(req, limit, errs, t) ==
  LET ip == _get_client_ip(req)
      path == req.path
      k == <<ip, path>>
      W == SecondsToMinutes(RATE_LIMIT_WINDOW)
      same == [admit |-> TRUE, rate |-> rate, block |-> block]
      failed == [same EXCEPT !.admit = RateLimitErrorVerdict]
      count == RateCount(ip, path, t)
  IN IF "no_redis" \in errs THEN same
     ELSE IF "block_get" \notin errs /\ Live(block[ip], t)
       THEN [same EXCEPT !.admit = FALSE]
     ELSE IF "rate_get" \in errs THEN failed
     ELSE IF OverLimit(count, limit)
       THEN [admit |-> FALSE, rate |-> rate,
             block |-> IF /\ path = "/api/auth/login"
                          /\ count >= IP_BLOCK_THRESHOLD
                          /\ "block_set" \notin errs
                         THEN [block EXCEPT ![ip] = t + W]
                         ELSE block]
     ELSE IF count = 0
       THEN IF "rate_set" \in errs THEN failed
            ELSE [same EXCEPT !.rate[k] = [count |-> 1, exp |-> t + W]]
     ELSE IF "rate_incr" \in errs THEN failed
     ELSE IF "rate_expire" \in errs
       THEN [failed EXCEPT !.rate[k] = [count |-> count + 1, exp |-> rate[k].exp]]
     ELSE [same EXCEPT !.rate[k] = [count |-> count + 1, exp |-> t + W]]

\* mutant: header and cookie are required but not compared
_validate_csrf_token_presence(req) ==
  /\ req.csrf_header # NoCsrf /\ req.csrf_header # ""
  /\ req.csrf_cookie # NoCsrf /\ req.csrf_cookie # ""

_validate_csrf_token(req) ==
  /\ req.csrf_header # NoCsrf /\ req.csrf_header # ""
  /\ req.csrf_cookie # NoCsrf /\ req.csrf_cookie # ""
  /\ req.csrf_header = req.csrf_cookie

\* mutant: the revocation set is not consulted
_validate_token_unchecked(req, revErr, t) ==
  LET tok == req.bearer
  IN IF tok = NoToken THEN NoUser
     ELSE IF ~JwtDecodes(tok, t) THEN NoUser
     ELSE IF tok.type # "access" THEN NoUser
     ELSE IF tok.jti = NoJti THEN NoUser
     ELSE Claims(tok)

\* claims of the bearer token, or NoUser (Python None); revErr: the Redis
\* lookup of revoked:{jti} raises
_validate_token(req, revErr, t) ==
  LET tok == req.bearer
  IN IF tok = NoToken THEN NoUser
     ELSE IF ~JwtDecodes(tok, t) THEN NoUser
     ELSE IF tok.type # "access" THEN NoUser
     ELSE IF tok.jti = NoJti THEN NoUser
     ELSE IF ~revErr /\ RevokedLive(tok.jti, t) THEN NoUser
     ELSE Claims(tok)

\* a response, with the request it answers and what happened on the way:
\* gate is the step that produced it, at the time of the call, revokedBefore
\* whether revoke_token had completed for the bearer's jti before the call
Response(req, status, headers, gate, user, rl, errs, revErr) ==
  [req |-> req, status |-> status, headers |-> headers, gate |-> gate,
   handler |-> (gate = "handler"), user |-> user, rl |-> rl, errs |-> errs,
   revErr |-> revErr, at |-> now,
   raised |-> IF rl = "none" THEN {}
              ELSE RateRaised(req, rate_limit_paths[req.path], errs, now),
   revokedBefore |-> (req.bearer.jti \in revokeDone)]

\* mutant: the CSRF gate answers before the rate-limit gate
SecurityMiddleware_call_csrf_first(req, errs, revErr, out, t) ==
  LET limited == req.path \in DOMAIN rate_limit_paths
      rl == IF limited
              THEN _check_rate_limit(req, rate_limit_paths[req.path], errs, t)
              ELSE [admit |-> TRUE, rate |-> rate, block |-> block]
      rlTag == IF ~limited THEN "none" ELSE IF rl.admit THEN "admit" ELSE "refuse"
      skip_csrf == req.path \in skip_csrf_paths
      skip_auth == req.path \in skip_auth_paths
      user == IF skip_auth THEN NoUser ELSE _validate_token(req, revErr, t)
      resp ==
        IF ~skip_csrf /\ req.method \in CsrfMethods /\ ~_validate_csrf_token(req)
          THEN Response(req, 403, {}, "csrf", NoUser, rlTag, errs, revErr)
        ELSE IF ~rl.admit
          THEN Response(req, 429, {}, "rate", NoUser, rlTag, errs, revErr)
        ELSE IF ~skip_auth /\ user = NoUser
          THEN Response(req, 401, {"WWW-Authenticate"}, "auth", NoUser, rlTag, errs, revErr)
        ELSE IF out.raises
          THEN Response(req, 500, {}, "handler", user, rlTag, errs, revErr)
        ELSE Response(req, out.status,
                      out.headers \cup SecurityHeaders \cup
                        (IF ENVIRONMENT # "production" THEN {"Server-Timing"} ELSE {}),
                      "handler", user, rlTag, errs, revErr)
  IN [resp |-> resp, rate |-> rl.rate, block |-> rl.block]

\* __call__: the gates in order, then call_next.  out is what the wrapped
\* handler does: [raises, status, headers]
SecurityMiddleware_call(req, errs, revErr, out, t) ==
  LET limited == req.path \in DOMAIN rate_limit_paths
      rl == IF limited
              THEN _check_rate_limit(req, rate_limit_paths[req.path], errs, t)
              ELSE [admit |-> TRUE, rate |-> rate, block |-> block]
      rlTag == IF ~limited THEN "none" ELSE IF rl.admit THEN "admit" ELSE "refuse"
      skip_csrf == req.path \in skip_csrf_paths
      skip_auth == req.path \in skip_auth_paths
      user == IF skip_auth THEN NoUser ELSE _validate_token(req, revErr, t)
      resp ==
        IF ~rl.admit
          THEN Response(req, 429, {}, "rate", NoUser, rlTag, errs, revErr)
        ELSE IF ~skip_csrf /\ req.method \in CsrfMethods /\ ~_validate_csrf_token(req)
          THEN Response(req, 403, {}, "csrf", NoUser, rlTag, errs, revErr)
        ELSE IF ~skip_auth /\ user = NoUser
          THEN Response(req, 401, {"WWW-Authenticate"}, "auth", NoUser, rlTag, errs, revErr)
        ELSE IF out.raises
          THEN Response(req, 500, {}, "handler", user, rlTag, errs, revErr)
        ELSE Response(req, out.status,
                      out.headers \cup SecurityHeaders \cup
                        (IF ENVIRONMENT # "production" THEN {"Server-Timing"} ELSE {}),
                      "handler", user, rlTag, errs, revErr)
  IN [resp |-> resp, rate |-> rl.rate, block |-> rl.block]

(***************************************************************************)
(* Token store of the auth service (auth_service/main.py)                  *)
(***************************************************************************)
\* the store calls of the handlers that may raise
StoreOps == {"find_token", "find_user", "insert_user", "redis_revoke",
             "delete_old", "insert_token", "redis_refresh"}

\* Redis SET key value ex=ttl: replaces the entry of that key
RedisSet(keys, k, ttl, t) ==
  {e \in keys : e.key # k} \cup {[key |-> k, exp |-> t + ttl]}

\* mutant: the document is looked up by the jti claim of its token
DeleteOne_byClaim(coll, jti) ==
  LET m == {r \in coll : r.token.jti = jti}
  IN IF m = {} THEN coll ELSE coll \ {CHOOSE r \in m : TRUE}

\* delete_one({"jti": jti}): removes one matching document, if any
DeleteOne(coll, jti) ==
  LET m == {r \in coll : r.jti = jti}
  IN IF m = {} THEN coll ELSE coll \ {CHOOSE r \in m : TRUE}

\* the three stores a handler writes, threaded through its calls
Stores == [revoked |-> revoked, tokens |-> tokens_collection,
           refreshKeys |-> refreshKeys]

\* revoke_token(jti): [st, raised]
revoke_token(st, jti, errs, t) ==
  IF "redis_revoke" \in errs THEN [st |-> st, raised |-> TRUE]
  ELSE LET s1 == [st EXCEPT !.revoked =
                    RedisSet(st.revoked, jti, SecondsToMinutes(REVOKED_TTL_SECONDS), t)]
       IN IF "delete_old" \in errs THEN [st |-> s1, raised |-> TRUE]
          ELSE [st |-> [s1 EXCEPT !.tokens = DeleteOne(s1.tokens, jti)],
                raised |-> FALSE]

\* store_refresh_token(user_id, token, jti): [st, raised]
store_refresh_token_unsaved(st, user_id, token, jti, errs, t) ==
  [st |-> st, raised |-> FALSE]
store_refresh_token(st, user_id, token, jti, errs, t) ==
  IF "insert_token" \in errs THEN [st |-> st, raised |-> TRUE]
  ELSE LET s1 == [st EXCEPT !.tokens = @ \cup
                    {[token |-> token, jti |-> jti, user_id |-> user_id,
                      created_at |-> t, expires_at |-> t + DaysToMinutes(7)]}]
       IN IF "redis_refresh" \in errs THEN [st |-> s1, raised |-> TRUE]
          ELSE [st |-> [s1 EXCEPT !.refreshKeys =
                          RedisSet(s1.refreshKeys, jti,
                                   SecondsToMinutes(REFRESH_KEY_TTL_SECONDS), t)],
                raised |-> FALSE]

PasswordHash(pw) == <<"bcrypt", pw>>
verify_password(pw, hashed) == hashed = PasswordHash(pw)

HResult(op, status, headers, presented, access, refresh_token, wasRotated) ==
  [op |-> op, status |-> status, headers |-> headers, presented |-> presented,
   access |-> access, refresh_token |-> refresh_token, wasRotated |-> wasRotated,
   persist |-> "none"]

\* the same response, with how store_refresh_token ended during the call
Persisting(h, raised) == [h EXCEPT !.persist = IF raised THEN "failed" ELSE "stored"]

NoHResult == HResult("none", 0, {}, NoToken, NoToken, NoToken, FALSE)

(***************************************************************************)
(* Handlers of the auth service (auth_service/main.py), called one after   *)
(* another.  errs is the set of store calls that raise during the call.    *)
(***************************************************************************)
FailSets == {{}} \cup {{op} : op \in StoreOps}

Passwords == {"pw1"}
WrongPassword == "guess"

ApplyStores(st) ==
  /\ revoked' = st.revoked
  /\ tokens_collection' = st.tokens
  /\ refreshKeys' = st.refreshKeys

\* the token pair of register/login/refresh and its persisting
IssuePair(st, email, uid, errs, t) ==
  LET access == create_access_token(email, uid, nextJti, t)
      refresh_token == create_refresh_token(email, uid, nextJti + 1, t)
      sr == store_refresh_token(st, uid, refresh_token,
                                SplitSegment1(refresh_token), errs, t)
  IN [access |-> access, refresh_token |-> refresh_token, st |-> sr.st,
      raised |-> sr.raised]

register(email, pw, errs) ==
  LET existing == {u \in users_collection : u.email = email}
      new_user == [_id |-> UserId(email), email |-> email,
                   password |-> PasswordHash(pw)]
      pair == IssuePair(Stores, email, UserId(email), errs, now)
  IN /\ UNCHANGED <<rotated, ended, revokeDone>>
     /\ IF "find_user" \in errs
          THEN /\ hres' = HResult("register", 500, {}, NoToken, NoToken, NoToken, FALSE)
               /\ UNCHANGED <<nextJti, users_collection, tokens_collection,
                              revoked, refreshKeys, issued>>
        ELSE IF existing # {}
          THEN /\ hres' = HResult("register", 400, {}, NoToken, NoToken, NoToken, FALSE)
               /\ UNCHANGED <<nextJti, users_collection, tokens_collection,
                              revoked, refreshKeys, issued>>
        ELSE IF "insert_user" \in errs
          THEN /\ hres' = HResult("register", 500, {}, NoToken, NoToken, NoToken, FALSE)
               /\ UNCHANGED <<nextJti, users_collection, tokens_collection,
                              revoked, refreshKeys, issued>>
        ELSE /\ nextJti + 1 <= MaxJti
             /\ users_collection' = users_collection \cup {new_user}
             /\ nextJti' = nextJti + 2
             /\ ApplyStores(pair.st)
             /\ IF pair.raised
                  THEN /\ hres' = Persisting(HResult("register", 500, {}, NoToken, NoToken,
                                                     NoToken, FALSE), TRUE)
                       /\ UNCHANGED issued
                  ELSE /\ hres' = Persisting(HResult("register", 200, {}, NoToken, pair.access,
                                                     pair.refresh_token, FALSE), FALSE)
                       /\ issued' = issued \cup {pair.access, pair.refresh_token}

\* authenticate_user: the user document, or none
authenticate_user(email, pw) ==
  {u \in users_collection : u.email = email /\ verify_password(pw, u.password)}

login(email, pw, errs) ==
  LET found == authenticate_user(email, pw)
      user == CHOOSE u \in found : TRUE
      pair == IssuePair(Stores, user.email, user._id, errs, now)
  IN /\ UNCHANGED <<rotated, ended, revokeDone, users_collection>>
     /\ IF "find_user" \in errs
          THEN /\ hres' = HResult("login", 500, {}, NoToken, NoToken, NoToken, FALSE)
               /\ UNCHANGED <<nextJti, tokens_collection, revoked, refreshKeys, issued>>
        ELSE IF found = {}
          THEN /\ hres' = HResult("login", 401, {"WWW-Authenticate"}, NoToken,
                                  NoToken, NoToken, FALSE)
               /\ UNCHANGED <<nextJti, tokens_collection, revoked, refreshKeys, issued>>
        ELSE /\ nextJti + 1 <= MaxJti
             /\ nextJti' = nextJti + 2
             /\ ApplyStores(pair.st)
             /\ IF pair.raised
                  THEN /\ hres' = Persisting(HResult("login", 500, {}, NoToken, NoToken,
                                                     NoToken, FALSE), TRUE)
                       /\ UNCHANGED issued
                  ELSE /\ hres' = Persisting(HResult("login", 200, {}, NoToken, pair.access,
                                                     pair.refresh_token, FALSE), FALSE)
                       /\ issued' = issued \cup {pair.access, pair.refresh_token}

\* refresh: every exception, the 401s raised inside included, leaves as 401
refresh(R, errs) ==
  LET recs == {r \in tokens_collection : r.token = R}
      token_record == CHOOSE r \in recs : TRUE
      user_id == token_record.user_id
      us == {u \in users_collection : u._id = user_id}
      user == CHOOSE u \in us : TRUE
      rv == revoke_token(Stores, token_record.jti, errs, now)
      pair == IssuePair(rv.st, user.email, user_id, errs, now)
      fail == HResult("refresh", 401, {}, R, NoToken, NoToken, R \in rotated)
  IN /\ UNCHANGED users_collection
     /\ IF "find_token" \in errs \/ recs = {} \/ "find_user" \in errs
          THEN /\ hres' = fail
               /\ UNCHANGED <<nextJti, tokens_collection, revoked, refreshKeys,
                              issued, rotated, ended, revokeDone>>
        ELSE IF us = {}
          THEN /\ hres' = fail
               /\ tokens_collection' =
                    {r \in tokens_collection : r.user_id # user_id}
               /\ UNCHANGED <<nextJti, revoked, refreshKeys, issued, rotated, ended,
                              revokeDone>>
        ELSE /\ nextJti + 1 <= MaxJti
             /\ nextJti' = nextJti + 2
             /\ IF rv.raised
                  THEN /\ hres' = fail
                       /\ ApplyStores(rv.st)
                       /\ UNCHANGED <<issued, rotated, ended, revokeDone>>
                  ELSE /\ ApplyStores(pair.st)
                       /\ revokeDone' = revokeDone \cup {token_record.jti}
                       /\ IF pair.raised
                            THEN /\ hres' = Persisting(fail, TRUE)
                                 /\ UNCHANGED <<issued, rotated, ended>>
                            ELSE /\ hres' = Persisting(HResult("refresh", 200, {}, R,
                                                               pair.access, pair.refresh_token,
                                                               R \in rotated), FALSE)
                                 /\ issued' = issued \cup {pair.access, pair.refresh_token}
                                 /\ rotated' = rotated \cup {R}
                                 /\ UNCHANGED ended

\* logout: answers success whatever happens
logout(R, errs) ==
  LET recs == {r \in tokens_collection : r.token = R}
      token_record == CHOOSE r \in recs : TRUE
      rv == revoke_token(Stores, token_record.jti, errs, now)
  IN /\ UNCHANGED <<nextJti, users_collection, issued, rotated>>
     /\ hres' = HResult("logout", 200, {}, R, NoToken, NoToken, R \in rotated)
     /\ ended' = IF recs # {} THEN ended \cup {R} ELSE ended
     /\ IF "find_token" \in errs \/ recs = {}
          THEN UNCHANGED <<tokens_collection, revoked, refreshKeys, revokeDone>>
          ELSE /\ ApplyStores(rv.st)
               /\ revokeDone' = IF rv.raised THEN revokeDone
                                ELSE revokeDone \cup {token_record.jti}

\* the store calls of the two password handlers; neither handler catches
PasswordOps == {"find_user", "update_user", "delete_tokens"}
PasswordFailSets == {{}} \cup {{op} : op \in PasswordOps}
NewPasswords == {"pw2"}

\* the refresh tokens on record for a user
TokensOf(user_id) == {r.token : r \in {x \in tokens_collection : x.user_id = user_id}}

\* users_collection.update_one({"_id": ...}, {"$set": {"password": ...}})
SetPassword(user, pw) ==
  (users_collection \ {user}) \cup {[user EXCEPT !.password = PasswordHash(pw)]}

\* the tail shared by update_password and reset_password: the new hash is
\* written, then every token record of the user is deleted
ChangePassword(op, user, new_password, errs) ==
  IF "update_user" \in errs
    THEN /\ hres' = HResult(op, 500, {}, NoToken, NoToken, NoToken, FALSE)
         /\ UNCHANGED <<users_collection, tokens_collection, ended>>
  ELSE IF "delete_tokens" \in errs
    THEN /\ hres' = HResult(op, 500, {}, NoToken, NoToken, NoToken, FALSE)
         /\ users_collection' = SetPassword(user, new_password)
         /\ UNCHANGED <<tokens_collection, ended>>
  ELSE /\ hres' = HResult(op, 200, {}, NoToken, NoToken, NoToken, FALSE)
       /\ users_collection' = SetPassword(user, new_password)
       /\ tokens_collection' = {r \in tokens_collection : r.user_id # user._id}
       /\ ended' = ended \cup TokensOf(user._id)

\* update_password: auth_user is request.state.user, the claims of the
\* caller's access token, or NoToken when the request carried none
update_password(auth_user, current_password, new_password, errs) ==
  LET user_id == auth_user.user_id
      us == {u \in users_collection : u._id = user_id}
      user == CHOOSE u \in us : TRUE
  IN /\ UNCHANGED <<nextJti, revoked, refreshKeys, issued, rotated, revokeDone>>
     /\ IF auth_user = NoToken
          THEN /\ hres' = HResult("update_password", 401, {}, NoToken, NoToken, NoToken, FALSE)
               /\ UNCHANGED <<users_collection, tokens_collection, ended>>
        ELSE IF "find_user" \in errs
          THEN /\ hres' = HResult("update_password", 500, {}, NoToken, NoToken, NoToken, FALSE)
               /\ UNCHANGED <<users_collection, tokens_collection, ended>>
        ELSE IF us = {}
          THEN /\ hres' = HResult("update_password", 404, {}, NoToken, NoToken, NoToken, FALSE)
               /\ UNCHANGED <<users_collection, tokens_collection, ended>>
        ELSE IF ~verify_password(current_password, user.password)
          THEN /\ hres' = HResult("update_password", 400, {}, NoToken, NoToken, NoToken, FALSE)
               /\ UNCHANGED <<users_collection, tokens_collection, ended>>
        ELSE ChangePassword("update_password", user, new_password, errs)

\* reset_password: matched is the set of users whose unexpired reset token
\* hash verifies against the request's token (empty: none does)
reset_password(matched, new_password, errs) ==
  LET user == CHOOSE u \in matched : TRUE
  IN /\ UNCHANGED <<nextJti, revoked, refreshKeys, issued, rotated, revokeDone>>
     /\ IF "find_user" \in errs
          THEN /\ hres' = HResult("reset_password", 500, {}, NoToken, NoToken, NoToken, FALSE)
               /\ UNCHANGED <<users_collection, tokens_collection, ended>>
        ELSE IF matched = {}
          THEN /\ hres' = HResult("reset_password", 400, {}, NoToken, NoToken, NoToken, FALSE)
               /\ UNCHANGED <<users_collection, tokens_collection, ended>>
        ELSE ChangePassword("reset_password", user, new_password, errs)

(***************************************************************************)
(* Initial state: empty stores, nothing issued                             *)
(***************************************************************************)
Ips == ClientIps \cup {GatewayHost}
RateKeys == Ips \X DOMAIN rate_limit_paths

NoReq == [path |-> "", method |-> "", peer |-> "", xff |-> "",
          csrf_header |-> NoCsrf, csrf_cookie |-> NoCsrf, bearer |-> NoToken]
NoResponse == [req |-> NoReq, status |-> 0, headers |-> {}, gate |-> "none",
               handler |-> FALSE, user |-> NoUser, rl |-> "none", errs |-> {},
               revErr |-> FALSE, at |-> 0, raised |-> {},
               revokedBefore |-> FALSE]

\* a gateway response with the request it answers: handler is TRUE when a
\* route handler ran, validated when the auth service answered 200 to the
\* gateway's token check
NoAuthHeader == [scheme |-> "none", token |-> NoToken]
GwResponse(op, path, method, auth, status, headers, handler, validated) ==
  [op |-> op, path |-> path, method |-> method, auth |-> auth,
   status |-> status, headers |-> headers, handler |-> handler,
   validated |-> validated]
NoGw == GwResponse("none", <<>>, "", NoAuthHeader, 0, {}, FALSE, FALSE)

(***************************************************************************)
(* LLM service (backend/llm_service/main.py): POST /process                *)
(***************************************************************************)
MAX_LLM_REQUESTS_PER_DAY == 500
DEFAULT_CACHE_TTL == 1800
\* redis_client.expire(key, 86400) of check_rate_limit, in seconds
LLM_COUNT_TTL_SECONDS == 86400
OPENAI_API_KEY == "configured"

\* /process requests served in one behaviour
MaxLlmCalls == 2

\* a Redis key written without a TTL never expires
NoExpiry == -1
LiveKey(exp, t) == exp = NoExpiry \/ Live(exp, t)

\* datetime.now().strftime('%Y-%m-%d'): the calendar day of minute t
Today(t) == t \div DaysToMinutes(1)

\* a text typed by a user, as a content of one part
TextOf(text) == <<[kind |-> "user", of |-> text, n |-> 0]>>
NoMetadata == [tools_used |-> <<>>, image_urls |-> <<>>, reasoning |-> ""]
\* a message of a thread
Message(role, content, t, metadata) ==
  [role |-> role, content |-> content, timestamp |-> t, metadata |-> metadata]
Msg(role, text) == Message(role, TextOf(text), 0, NoMetadata)
ProcessRequest(query, thread_id, history, image_context, include_reasoning) ==
  [query |-> query, thread_id |-> thread_id, mode |-> "explore",
   conversation_history |-> history, image_context |-> image_context,
   include_reasoning |-> include_reasoning]

\* conversation_history[-3:]
Last3(h) == IF Len(h) <= 3 THEN h ELSE SubSeq(h, Len(h) - 2, Len(h))

\* the md5 input of the cache key: the query, the last three history
\* messages when there is a history, the mode, and the image context when
\* there is one; thread_id and include_reasoning are not part of it
CacheKey(req) ==
  [query |-> req.query, recent |-> Last3(req.conversation_history),
   mode |-> req.mode, image_context |-> req.image_context]

\* the two regular expressions of the special-case handlers, on the queries
\* of the model
ImageGenMatch(query) == query = "draw an image of a cat"
SmsMatch(query) == query = "send a message to bob: \"hi\""

\* function name of a tool call -> the label appended to tools_used
ToolLabel ==
  [search_web |-> "web-search", scrape_webpage |-> "web-scrape",
   send_sms |-> "sms", make_call |-> "call",
   generate_image |-> "image-generation", analyze_image |-> "image-analysis"]

\* The content of a response is a text assembled from parts: the model's
\* reply, one part per tool result, one part per error note.
ReplyPart(text, n) == [kind |-> "reply", of |-> text, n |-> n]
ResultPart(name, i) == [kind |-> "result", of |-> name, n |-> i]
ErrorNote(name, i) == [kind |-> "error", of |-> name, n |-> i]

\* the reply texts of the model: none, a plain one, and one that cites its
\* sources ("According to ... Sources: ...")
ReplyTexts == {"", "plain", "sources"}
ReplyContent(text, n) == IF text = "" THEN <<>> ELSE <<ReplyPart(text, n)>>

\* one tool call of the reply and what its collaborator does: answers 200,
\* answers another status, raises; or the arguments are not JSON
ToolCall(name, outcome) == [name |-> name, outcome |-> outcome]

\* the loop over tool_calls: acc is content, tools_used and the collaborator
\* calls made so far; i is the position of the tool call in the reply
RECURSIVE DispatchTools(_, _, _)
DispatchTools(tool_calls, i, acc) ==
  IF i > Len(tool_calls) THEN acc
  ELSE LET name == tool_calls[i].name
           outcome == tool_calls[i].outcome
           called == [acc EXCEPT !.tools_used = Append(@, ToolLabel[name]),
                                 !.dispatched = Append(@, i)]
           next ==
             IF outcome = "bad_arguments"
             THEN [acc EXCEPT !.content = Append(@, ErrorNote(name, i))]
             ELSE IF name \notin DOMAIN ToolLabel THEN acc
             ELSE IF outcome = "200"
             THEN [called EXCEPT !.content = Append(@, ResultPart(name, i))]
             ELSE IF outcome = "throws"
             THEN [called EXCEPT !.content = Append(@, ErrorNote(name, i))]
             ELSE called
       IN DispatchTools(tool_calls, i + 1, next)

\* the terms enhance_search_results_formatting looks for
HasSearchTerm(part) ==
  \/ part.kind = "reply" /\ part.of = "sources"
  \/ part.kind = "result" /\ part.of = "search_web"
\* re.split on sources: / references: / from these sources:
HasSourcesMarker(part) == part.kind = "reply" /\ part.of = "sources"
\* the parts format_sources_section finds an http(s) URL in
HasUrl(part) ==
  part.kind = "result" /\ part.of \in {"search_web", "generate_image"}

\* Text up to the first marker becomes the summary; of the text after it only
\* the URLs are kept, as a numbered list of sources.
enhance_search_results_formatting(content) ==
  IF ~\E i \in DOMAIN content : HasSearchTerm(content[i]) THEN content
  ELSE IF ~\E i \in DOMAIN content : HasSourcesMarker(content[i]) THEN content
  ELSE LET m == CHOOSE i \in DOMAIN content :
                  /\ HasSourcesMarker(content[i])
                  /\ \A j \in 1..(i - 1) : ~HasSourcesMarker(content[j])
           before == SubSeq(content, 1, m - 1)
           urls == {j \in (m + 1)..Len(content) : HasUrl(content[j])}
       IN before \o <<[kind |-> "summary", of |-> content[m].of,
                       n |-> content[m].n],
                      [kind |-> "sources", of |-> "urls",
                       n |-> Cardinality(urls)]>>

\* tools inferred from the words of the content when none was dispatched
detect_tools_from_response(content) ==
  IF \E i \in DOMAIN content :
       content[i].kind = "reply" /\ content[i].of = "sources"
  THEN <<"web-search">> ELSE <<>>

\* markdown images of the content
extract_image_urls(content) ==
  SelectSeq(content,
            LAMBDA p : p.kind = "result" /\ p.of = "generate_image")

NoPayload ==
  [message |-> <<>>, tools_used |-> <<>>, image_urls |-> <<>>, timestamp |-> 0,
   thread_id |-> "", reasoning |-> "", status |-> ""]

\* the daily counter key llm_request_count:{today}
CounterKeys(counter, t) ==
  {e \in counter : e.day = Today(t) /\ LiveKey(e.exp, t)}
CounterValue(counter, t) ==
  IF CounterKeys(counter, t) = {} THEN 0
  ELSE (CHOOSE e \in CounterKeys(counter, t) : TRUE).n

\* redis_client.incr(key), then expire(key, 86400) unless the key has a TTL
CounterIncr(counter, t, withExpire) ==
  LET old == CounterKeys(counter, t)
      exp == IF old # {} /\ (CHOOSE e \in old : TRUE).exp # NoExpiry
             THEN (CHOOSE e \in old : TRUE).exp
             ELSE IF withExpire
                  THEN t + SecondsToMinutes(LLM_COUNT_TTL_SECONDS)
                  ELSE NoExpiry
  IN (counter \ old) \cup
       {[day |-> Today(t), n |-> CounterValue(counter, t) + 1, exp |-> exp]}

\* check_rate_limit(): the verdict ("admit", "refuse", or "raise" when a store
\* call raises, which nothing catches) and the counter it leaves
check_rate_limit(counter, errs, t) ==
  IF "no_redis" \in errs THEN [verdict |-> "admit", counter |-> counter]
  ELSE IF "count_get" \in errs THEN [verdict |-> "raise", counter |-> counter]
  ELSE IF CounterValue(counter, t) >= MAX_LLM_REQUESTS_PER_DAY
  THEN [verdict |-> "refuse", counter |-> counter]
  ELSE IF "count_incr" \in errs THEN [verdict |-> "raise", counter |-> counter]
  ELSE IF "count_ttl" \in errs \/ "count_expire" \in errs
  THEN [verdict |-> "raise", counter |-> CounterIncr(counter, t, FALSE)]
  ELSE [verdict |-> "admit", counter |-> CounterIncr(counter, t, TRUE)]

\* redis_client.get(cache_key) and redis_client.set(cache_key, ..., ex=TTL)
CacheEntries(cache, key, t) == {e \in cache : e.key = key /\ Live(e.exp, t)}
CacheSet(cache, key, payload, t) ==
  {e \in cache : e.key # key} \cup
    {[key |-> key, payload |-> payload,
      exp |-> t + SecondsToMinutes(DEFAULT_CACHE_TTL)]}

LlmOutcome(status, payload, counter, cache, hit, calls, asked, made, special) ==
  [status |-> status, payload |-> payload, counter |-> counter,
   cache |-> cache, from_cache |-> hit, provider_calls |-> calls,
   requested |-> asked, dispatched |-> made, special |-> special]

\* The regular path of process_query, lines 752-1219.  reply is what the
\* provider answers: status, text, tool calls, and whether the reasoning call
\* is answered.  gen numbers the provider's replies.
RegularPath(req, reply, errs, counter, cache, gen, special, t) ==
  LET reasoned == req.include_reasoning
      reasoning_output == IF reasoned /\ reply.reasoning_ok
                          THEN "reasoning" ELSE ""
      calls == IF reasoned THEN 2 ELSE 1
      done == DispatchTools(reply.tool_calls, 1,
                [content |-> ReplyContent(reply.text, gen),
                 tools_used |-> <<>>, dispatched |-> <<>>])
      content == IF \E i \in DOMAIN done.tools_used :
                       done.tools_used[i] = "web-search"
                 THEN enhance_search_results_formatting(done.content)
                 ELSE done.content
      tools_used == IF done.tools_used = <<>>
                    THEN detect_tools_from_response(content)
                    ELSE done.tools_used
      api_response ==
        [message |-> content, tools_used |-> tools_used,
         image_urls |-> extract_image_urls(content), timestamp |-> t,
         thread_id |-> req.thread_id, reasoning |-> reasoning_output,
         status |-> ""]
      failed(n, disp) ==
        LlmOutcome(500, NoPayload, counter, cache, FALSE, n, reply.tool_calls,
                   disp, special)
  IN IF reply.status # 200 THEN failed(calls, <<>>)
     ELSE IF "no_redis" \notin errs /\ content # <<>>
     THEN IF "cache_set" \in errs THEN failed(calls, done.dispatched)
          ELSE LlmOutcome(200, api_response, counter,
                          CacheSet(cache, CacheKey(req), api_response, t),
                          FALSE, calls, reply.tool_calls, done.dispatched,
                          special)
     ELSE LlmOutcome(200, api_response, counter, cache, FALSE, calls,
                     reply.tool_calls, done.dispatched, special)

\* The direct handlers of lines 664-748: the collaborator is called; on 200
\* the response is built, cached and returned; anything else, a raising
\* cache write included, continues with the regular path.
SpecialResponse(query, t) ==
  IF ImageGenMatch(query)
  THEN [message |-> <<ResultPart("generate_image", 0)>>,
        tools_used |-> <<"image-generation">>,
        image_urls |-> <<ResultPart("generate_image", 0)>>, timestamp |-> t,
        thread_id |-> "", reasoning |-> "", status |-> "success"]
  ELSE [message |-> <<ResultPart("send_sms", 0)>>, tools_used |-> <<"sms">>,
        image_urls |-> <<>>, timestamp |-> t, thread_id |-> "",
        reasoning |-> "", status |-> "success"]

SpecialName(query) ==
  IF ImageGenMatch(query) THEN "generate-image"
  ELSE IF SmsMatch(query) THEN "send-sms" ELSE "none"

\* process_query(request)
process_query(req, reply, direct, errs, counter, cache, gen, t) ==
  LET rl == check_rate_limit(counter, errs, t)
      key == CacheKey(req)
      hit == CacheEntries(cache, key, t)
      special == SpecialName(req.query)
  IN IF OPENAI_API_KEY = ""
     THEN LlmOutcome(500, NoPayload, counter, cache, FALSE, 0, <<>>, <<>>,
                     "none")
     ELSE IF rl.verdict = "raise"
     THEN LlmOutcome(500, NoPayload, rl.counter, cache, FALSE, 0, <<>>, <<>>,
                     "none")
     ELSE IF rl.verdict = "refuse"
     THEN LlmOutcome(429, NoPayload, rl.counter, cache, FALSE, 0, <<>>, <<>>,
                     "none")
     ELSE IF "no_redis" \notin errs /\ "cache_get" \in errs
     THEN LlmOutcome(500, NoPayload, rl.counter, cache, FALSE, 0, <<>>, <<>>,
                     "none")
     ELSE IF "no_redis" \notin errs /\ hit # {}
     THEN LlmOutcome(200, (CHOOSE e \in hit : TRUE).payload, rl.counter,
                     cache, TRUE, 0, <<>>, <<>>, "none")
     ELSE IF special # "none" /\ direct = "200"
             /\ ("no_redis" \in errs \/ "direct_cache_set" \notin errs)
     THEN LlmOutcome(200, SpecialResponse(req.query, t), rl.counter,
                     IF "no_redis" \in errs THEN cache
                     ELSE CacheSet(cache, key, SpecialResponse(req.query, t),
                                   t),
                     FALSE, 0, <<>>, <<>>, special)
     ELSE RegularPath(req, reply, errs, rl.counter, cache, gen, special, t)

(***************************************************************************)
(* Conversation service (backend/conversation_service/main.py)             *)
(***************************************************************************)
\* limit: int = 100 of get_history, and history[-10:] of store_message
HISTORY_LIMIT == 100
STORE_HISTORY_LIMIT == 10

\* calls to the conversation service in one behaviour
MaxConvCalls == 5

\* thread ids a client sends ("" is none), and the ids uuid4 yields, in the
\* order it yields them
ClientThreadIds == {"tA"}
ThreadIdPool == <<"thread_1", "thread_2", "thread_3", "thread_4", "thread_5",
                  "thread_6", "thread_7">>
ThreadIds == ClientThreadIds \cup {ThreadIdPool[i] : i \in DOMAIN ThreadIdPool}

\* messages[-n:]
LastN(messages, n) ==
  IF Len(messages) <= n THEN messages
  ELSE SubSeq(messages, Len(messages) - n + 1, Len(messages))

\* conversations.find_one({"thread_id": thread_id})
FindThread(threads, thread_id) == {c \in threads : c.thread_id = thread_id}
\* mutant: the message is put in front of the thread's messages
PushMessage_front(threads, thread_id, m) ==
  {IF c.thread_id = thread_id
   THEN [c EXCEPT !.messages = <<m>> \o @] ELSE c : c \in threads}
\* conversations.update_one({"thread_id": ...}, {"$push": {"messages": m}})
PushMessage(threads, thread_id, m) ==
  {IF c.thread_id = thread_id
   THEN [c EXCEPT !.messages = Append(@, m)] ELSE c : c \in threads}

ConvOutcome(status, thread_id, messages, threads, fresh) ==
  [status |-> status, thread_id |-> thread_id, messages |-> messages,
   threads |-> threads, fresh |-> fresh]

\* store_message(request): errs are the collection calls that raise
store_message(threads, fresh, req_thread_id, message, errs, t) ==
  LET generated == req_thread_id = ""
      thread_id == IF generated THEN ThreadIdPool[fresh] ELSE req_thread_id
      fresh1 == IF generated THEN fresh + 1 ELSE fresh
      user_message == Message("user", TextOf(message), t, NoMetadata)
      conversation == FindThread(threads, thread_id)
      failed == ConvOutcome(500, thread_id, <<>>, threads, fresh1)
  IN IF "find_one" \in errs THEN failed
     ELSE IF conversation # {}
     THEN IF "update_one" \in errs THEN failed
          ELSE ConvOutcome(200, thread_id,
                 LastN(Append((CHOOSE c \in conversation : TRUE).messages,
                              user_message), STORE_HISTORY_LIMIT),
                 PushMessage(threads, thread_id, user_message), fresh1)
     ELSE IF "insert_one" \in errs THEN failed
          ELSE ConvOutcome(200, thread_id, <<user_message>>,
                 threads \cup {[thread_id |-> thread_id,
                                messages |-> <<user_message>>]}, fresh1)

\* update_conversation(request)
update_conversation(threads, fresh, thread_id, content, metadata, errs, t) ==
  LET assistant_message == Message("assistant", content, t, metadata)
  IN IF "update_one" \in errs
     THEN ConvOutcome(500, thread_id, <<>>, threads, fresh)
     ELSE IF FindThread(threads, thread_id) = {}
     THEN ConvOutcome(404, thread_id, <<>>, threads, fresh)
     ELSE ConvOutcome(200, thread_id, <<>>,
                      PushMessage(threads, thread_id, assistant_message), fresh)

\* get_history(thread_id, limit)
get_history(threads, fresh, thread_id, limit, errs) ==
  LET conversation == FindThread(threads, thread_id)
      messages == (CHOOSE c \in conversation : TRUE).messages
  IN IF "find_one" \in errs
     THEN ConvOutcome(500, thread_id, <<>>, threads, fresh)
     ELSE IF conversation = {}
     THEN ConvOutcome(404, thread_id, <<>>, threads, fresh)
     ELSE ConvOutcome(200, thread_id,
                      IF limit > 0 THEN LastN(messages, limit) ELSE messages,
                      threads, fresh)

NoConvRes ==
  [op |-> "none", req_thread_id |-> "", limit |-> 0, status |-> 0,
   thread_id |-> "", messages |-> <<>>, existed |-> {}, errs |-> {}]

ConvInit ==
  [threads |-> {}, fresh |-> 1, log |-> [id \in ThreadIds |-> <<>>],
   calls |-> 0, res |-> NoConvRes]

\* a counter key that INCR created has no TTL until EXPIRE sets one: it
\* outlives every clock value of the model
NoTtl == 1000000

\* a _check_rate_limit call between two of its store calls: pc is the store
\* call it makes next, blocked whether a block entry of its identity was
\* live when the call arrived, looked whether its lookup of it answered
RlCall(ip, path, pc, blocked, looked) ==
  [ip |-> ip, path |-> path, pc |-> pc, blocked |-> blocked, looked |-> looked]

\* a call that returned: its verdict, the branch that gave it, and the
\* counters and block entries as they were before its last store call
RlRes(c, verdict, via, rate_before, block_before) ==
  [ip |-> c.ip, path |-> c.path, verdict |-> verdict, via |-> via,
   blocked |-> c.blocked, looked |-> c.looked, rate_before |-> rate_before,
   block_before |-> block_before]

NoRlRes == [ip |-> "", path |-> "", verdict |-> "none", via |-> "none",
            blocked |-> FALSE, looked |-> FALSE, rate_before |-> <<>>,
            block_before |-> <<>>]

RlInit == [calls |-> EmptyBag, admitted |-> [k \in RateKeys |-> 0],
           raises |-> 0, res |-> NoRlRes]

\* no helper function has been called
NoCalc == [fn |-> "none", arg |-> <<>>, out |-> <<>>]

NoLlmRequest == ProcessRequest("", "", <<>>, "", FALSE)
NoLlmRes ==
  [req |-> NoLlmRequest, status |-> 0, payload |-> NoPayload,
   from_cache |-> FALSE, provider_calls |-> 0, requested |-> <<>>,
   dispatched |-> <<>>, special |-> "none", errs |-> {}, earlier |-> {}]

\* the gateway's chat turn: the calls it issued, in the order it issued them,
\* each with the status it got (0: the call raised), and its own answer
NoChatRes ==
  [status |-> 0, calls |-> <<>>, result |-> NoPayload, thread_id |-> "",
   req_thread_id |-> ""]
\* a chat turn of the gateway between two of its awaited calls: pc is where
\* it stands, found what find_one of its /store call returned, history and
\* after the history /store answered and the thread's messages right after
\* its write, result the payload /process answered, gone whether a thread
\* was removed while the turn ran; undisturbed says that no turn has failed
\* and no thread was removed so far
NoTurn ==
  [pc |-> "idle", found |-> <<>>, existed |-> FALSE, store_status |-> 0,
   history |-> <<>>, after |-> <<>>, result |-> NoPayload, gone |-> FALSE]
\* turns of the gateway that run at the same time
TurnIds == {1, 2}
ChatInit ==
  [turns |-> 0, res |-> NoChatRes, running |-> [p \in TurnIds |-> NoTurn],
   undisturbed |-> TRUE]

LlmInit ==
  [cache |-> {}, counter |-> {}, calls |-> 0, computed |-> {},
   res |-> NoLlmRes]

\* a refresh call in progress: where it is and its local variables
ProcIds == {"p1", "p2"}
NoRecord == [token |-> NoToken, jti |-> NoJti, user_id |-> NoUid,
             created_at |-> 0, expires_at |-> 0]
IdleProc == [pc |-> "idle", R |-> NoToken, token_record |-> NoRecord,
             access |-> NoToken, new_refresh_token |-> NoToken, status |-> 0]

Init ==
  /\ now = 0 /\ ticks = 0 /\ nextJti = 1
  /\ users_collection = {} /\ tokens_collection = {}
  /\ revoked = {} /\ refreshKeys = {}
  /\ rate = [k \in RateKeys |-> [count |-> 0, exp |-> 0]]
  /\ block = [ip \in Ips |-> 0]
  /\ issued = {} /\ rotated = {} /\ ended = {} /\ revokeDone = {}
  /\ last = NoResponse /\ hres = NoHResult
  /\ gw = NoGw /\ gwLogins = 0
  /\ procs = [p \in ProcIds |-> IdleProc]
  /\ win = [k \in RateKeys |-> [calls |-> 0, clean |-> TRUE, refused |-> FALSE]]
  /\ llm = LlmInit /\ conv = ConvInit /\ chat = ChatInit /\ limiter = RlInit
  /\ calc = NoCalc

\* last, hres and gw hold a response on its way to the client; the next step
\* delivers it, and the next call starts after that
Idle ==
  /\ last = NoResponse /\ hres = NoHResult /\ gw = NoGw
  /\ llm.res = NoLlmRes /\ conv.res = NoConvRes /\ chat.res = NoChatRes
  /\ limiter.res = NoRlRes

Deliver ==
  /\ ~Idle
  /\ last' = NoResponse /\ hres' = NoHResult /\ gw' = NoGw
  /\ llm' = [llm EXCEPT !.res = NoLlmRes]
  /\ conv' = [conv EXCEPT !.res = NoConvRes]
  /\ chat' = [chat EXCEPT !.res = NoChatRes]
  /\ limiter' = [limiter EXCEPT !.res = NoRlRes]
  /\ UNCHANGED <<now, ticks, nextJti, users_collection, tokens_collection,
                 revoked, refreshKeys, rate, block, issued, rotated, ended, revokeDone,
                 gwLogins, win, procs, calc>>

(***************************************************************************)
(* The clock.  Redis drops a key at its expiry.                            *)
(***************************************************************************)
TickBy(steps) ==
  /\ Idle
  /\ ticks < MaxTicks
  /\ \E d \in steps :
       /\ now' = now + d
       /\ ticks' = ticks + 1
       /\ revoked' = {e \in revoked : Live(e.exp, now + d)}
       /\ refreshKeys' = {e \in refreshKeys : Live(e.exp, now + d)}
       /\ rate' = [k \in DOMAIN rate |->
                     IF Live(rate[k].exp, now + d) THEN rate[k]
                     ELSE [count |-> 0, exp |-> 0]]
       /\ block' = [ip \in DOMAIN block |->
                      IF Live(block[ip], now + d) THEN block[ip] ELSE 0]
       \* a key's window ends when its counter's TTL has expired
       /\ win' = [k \in DOMAIN rate |->
                    IF Live(rate[k].exp, now + d) THEN win[k]
                    ELSE [win[k] EXCEPT !.calls = 0, !.clean = TRUE]]
       /\ llm' = [llm EXCEPT
                    !.cache = {e \in @ : Live(e.exp, now + d)},
                    !.counter = {e \in @ : LiveKey(e.exp, now + d)}]
       /\ limiter' = [limiter EXCEPT !.admitted =
                   [k \in DOMAIN rate |->
                      IF Live(rate[k].exp, now + d) THEN limiter.admitted[k] ELSE 0]]
  /\ UNCHANGED <<nextJti, users_collection, tokens_collection, issued, rotated, ended,
                 revokeDone, last, hres, gw, gwLogins, procs, conv, chat, calc>>

Tick == TickBy(TickSteps)

(***************************************************************************)
(* Requests to the auth service pass SecurityMiddleware                    *)
(***************************************************************************)
\* what a client can put into the Authorization header: nothing, a token it
\* was given, or one of those with a broken signature or without jti
Presentable ==
  {NoToken} \cup issued \cup {[t EXCEPT !.sig = "bad"] : t \in issued}
            \cup {[t EXCEPT !.jti = NoJti] : t \in issued}

\* what the wrapped handler does
HandlerOutcomes == {[raises |-> FALSE, status |-> 200, headers |-> {}],
                    [raises |-> TRUE, status |-> 0, headers |-> {}]}

MaxCalls == 6

\* bookkeeping of the calls made per rate key
CountCall(req, errs, admitted) ==
  LET k == <<_get_client_ip(req), req.path>>
  IN IF req.path \in DOMAIN rate_limit_paths
       THEN /\ win[k].calls < MaxCalls
            /\ win' = [win EXCEPT
                         ![k].calls = @ + 1,
                         ![k].clean = @ /\ errs = {} /\ ~Live(block[k[1]], now),
                         ![k].refused = @ \/ ~admitted]
       ELSE UNCHANGED win

MwRequestOn(paths, methods, csrfPairs, errSets, revErrs, outs) ==
  /\ Idle
  /\ \E path \in paths, method \in methods, csrf \in csrfPairs,
        bearer \in Presentable, errs \in errSets, revErr \in revErrs,
        out \in outs, peer \in ClientIps :
       LET req == [path |-> path, method |-> method, peer |-> peer, xff |-> "",
                   csrf_header |-> csrf[1], csrf_cookie |-> csrf[2],
                   bearer |-> bearer]
           r == SecurityMiddleware_call(req, errs, revErr, out, now)
       IN /\ last' = r.resp
          /\ rate' = r.rate
          /\ block' = r.block
          /\ CountCall(req, errs, r.resp.rl # "refuse")
          /\ UNCHANGED <<now, ticks, nextJti, users_collection,
                         tokens_collection, revoked, refreshKeys, issued,
                         rotated, ended, revokeDone, hres, gw, gwLogins, procs, llm, conv, chat, limiter, calc>>

(***************************************************************************)
(* Token validation: tokens are created, revoke_token is called on a jti,  *)
(* requests present tokens, time passes                                    *)
(***************************************************************************)
MaxIssued == 2

\* create_access_token and create_refresh_token for one subject
CreateTokens ==
  \E e \in Emails :
    /\ Idle
    /\ issued = {} \/ Cardinality(issued) + 2 <= MaxIssued
    /\ nextJti + 1 <= MaxJti
    /\ nextJti' = nextJti + 2
    /\ issued' = issued \cup {create_access_token(e, UserId(e), nextJti, now),
                              create_refresh_token(e, UserId(e), nextJti + 1, now)}
    /\ UNCHANGED <<now, ticks, users_collection, tokens_collection, revoked,
                   refreshKeys, rate, block, rotated, ended, revokeDone, last, hres,
                   gw, gwLogins, win, procs, llm, conv, chat, limiter, calc>>

\* revoke_token(jti) on the jti of an issued token
RevokeTokenCall ==
  \E tok \in issued, errs \in {{}, {"redis_revoke"}, {"delete_old"}} :
    LET rv == revoke_token(Stores, tok.jti, errs, now)
    IN /\ Idle
       /\ ApplyStores(rv.st)
       /\ revokeDone' = IF rv.raised THEN revokeDone ELSE revokeDone \cup {tok.jti}
       /\ UNCHANGED <<now, ticks, nextJti, users_collection, rate, block, issued,
                      rotated, ended, last, hres, gw, gwLogins, win, procs, llm, conv, chat, limiter, calc>>

TokPaths == {"/me", "/login"}
TokMethods == {"GET", "PUT"}
TokCsrfPairs == {<<"c1", "c1">>}

MwRequestTok ==
  MwRequestOn(TokPaths, TokMethods, TokCsrfPairs, {{}}, BOOLEAN, HandlerOutcomes)

NextTok == CreateTokens \/ RevokeTokenCall \/ MwRequestTok \/ Tick \/ Deliver
SpecTok == Init /\ [][NextTok]_vars

\* C1: with the revocation store answering, a request that presents an issued
\* access token whose jti revoke_token has revoked, and that reaches
\* _validate_token, gets no claims and is answered 401
RevokedAccessTokenIsInvalid ==
  (/\ last.gate \in {"auth", "handler"}
   /\ last.req.path \notin skip_auth_paths
   /\ last.req.bearer \in issued /\ last.req.bearer.type = "access"
   /\ last.revokedBefore /\ ~last.revErr)
  => (last.user = NoUser /\ last.status = 401 /\ ~last.handler)

\* a revoked access token, still unexpired and well signed, was presented
RevokedUnexpiredTokenPresented ==
  /\ last.gate = "auth" /\ last.req.bearer \in issued
  /\ last.req.bearer.type = "access" /\ last.revokedBefore /\ ~last.revErr
  /\ JwtDecodes(last.req.bearer, last.at) /\ last.at > last.req.bearer.iat

\* C5: on a path that is not auth-exempt the handler runs only for a bearer
\* token that is well signed, unexpired, of type access, carries a jti that
\* is not revoked, and request.state.user is that token's claims
HandlerOnlyForValidUnrevokedToken ==
  (last.handler /\ last.req.path \notin skip_auth_paths)
  => /\ last.req.bearer.sig = "ok"
     /\ ~(last.req.bearer.exp < last.at)
     /\ last.req.bearer.type = "access"
     /\ last.req.bearer.jti # NoJti
     /\ ~RevokedLive(last.req.bearer.jti, last.at)
     /\ last.user = Claims(last.req.bearer)

(***************************************************************************)
(* Rate limiting: requests on the rate-limited paths, time passes          *)
(***************************************************************************)
RatePaths == {"/api/auth/login", "/api/auth/register"}
\* every store call answers, or one of the calls a request can reach raises
RateErrSets == {{}} \cup {{op} : op \in RateOps \ {"block_set"}}
OkOutcome == {[raises |-> FALSE, status |-> 200, headers |-> {}]}

MwRequestRate ==
  MwRequestOn(RatePaths, {"POST"}, {<<NoCsrf, NoCsrf>>}, RateErrSets, {FALSE},
              OkOutcome)

NextRate == MwRequestRate \/ Tick \/ Deliver
SpecRate == Init /\ [][NextRate]_vars

LastKey == <<_get_client_ip(last.req), last.req.path>>

FailErrSets == {{}, {"no_redis"}, RateOps} \cup {{op} : op \in RateOps}

MwRequestFail ==
  MwRequestOn(RatePaths, {"POST"}, {<<NoCsrf, NoCsrf>>}, FailErrSets, {FALSE},
              OkOutcome)

NextFail == MwRequestFail \/ Deliver
SpecFail == Init /\ [][NextFail]_vars

\* the counter calls: redis.get, set, incr and expire on the rate key
CounterOps == {"rate_get", "rate_set", "rate_incr", "rate_expire"}

\* C11 as stated: a _check_rate_limit call in which the store is absent or
\* any store call raises admits the request, and the answer is not 429
StoreFailureAlwaysAdmits ==
  (last.rl # "none" /\ (last.raised # {} \/ "no_redis" \in last.errs))
  => (last.rl = "admit" /\ last.status # 429)

\* C11 amended: the store absent, or a counter call raising, admits the
\* request and the answer is not 429; when only the block lookup raises the
\* counter decides
CounterFailureAdmits ==
  /\ (last.rl # "none" /\
        (last.raised \cap CounterOps # {} \/ "no_redis" \in last.errs))
       => (last.rl = "admit" /\ last.status # 429)
  /\ (last.rl = "refuse" /\ last.raised = {"block_get"})
       => RateCount(LastKey[1], LastKey[2], last.at)
            >= rate_limit_paths[last.req.path]
  /\ (last.rl = "admit" /\ last.raised = {"block_get"})
       => RateCount(LastKey[1], LastKey[2], last.at)
            <= rate_limit_paths[last.req.path]

\* the counter read raised for a key whose counter had reached the limit, and
\* the request was admitted
AdmittedOverLimitOnCounterFailure ==
  /\ "rate_get" \in last.raised /\ last.rl = "admit" /\ last.status = 200
  /\ RateCount(LastKey[1], LastKey[2], last.at)
       >= rate_limit_paths[last.req.path]

(***************************************************************************)
(* The auth service's handlers run one after another                       *)
(***************************************************************************)
\* what a direct handler call leaves alone
HandlerFrame ==
  UNCHANGED <<now, ticks, rate, block, last, gw, gwLogins, win,
              procs, llm, conv, chat, limiter, calc>>

Register ==
  /\ Idle /\ HandlerFrame
  /\ \E e \in Emails, pw \in Passwords, errs \in FailSets : register(e, pw, errs)
Login ==
  /\ Idle /\ HandlerFrame
  /\ \E e \in Emails, pw \in Passwords \cup {WrongPassword}, errs \in FailSets :
        login(e, pw, errs)
Refresh ==
  /\ Idle /\ HandlerFrame
  /\ \E R \in issued, errs \in FailSets : refresh(R, errs)
Logout ==
  /\ Idle /\ HandlerFrame
  /\ \E R \in issued, errs \in FailSets : logout(R, errs)

\* callers of update_password: holders of an issued access token, or nobody
AuthUsers == {T \in issued : T.type = "access"} \cup {NoToken}
UpdatePassword ==
  /\ Idle /\ HandlerFrame
  /\ \E a \in AuthUsers, cur \in Passwords \cup {WrongPassword},
        new \in NewPasswords, errs \in PasswordFailSets :
        update_password(a, cur, new, errs)
\* a reset request carries the reset token of one user, or a token of none
ResetPassword ==
  /\ Idle /\ HandlerFrame
  /\ \E m \in {{u} : u \in users_collection} \cup {{}},
        new \in NewPasswords, errs \in PasswordFailSets :
        reset_password(m, new, errs)

NextAuth ==
  Register \/ Login \/ Refresh \/ Logout \/ UpdatePassword \/ ResetPassword \/ Deliver
SpecAuth == Init /\ [][NextAuth]_vars

\* C2: a refresh call presenting a refresh token that an earlier refresh call
\* already rotated successfully is answered 401
RotatedTokenIsRefused ==
  (hres.op = "refresh" /\ hres.wasRotated) => hres.status = 401

\* a second refresh call with an already rotated token has been made
RotatedTokenPresentedAgain ==
  hres.op = "refresh" /\ hres.wasRotated /\ hres.presented.type = "refresh"

\* C19 as stated: once logout has completed for a stored refresh token R, or
\* update_password or reset_password has succeeded for R's user, every later
\* refresh call presenting R is answered 401
EndedTokenIsRefused ==
  (hres.op = "refresh" /\ hres.presented \in ended) => hres.status = 401

IssuingOps == {"register", "login", "refresh"}

\* C20: when register, login or refresh returns a refresh token, the token
\* store holds a record of it with token, jti, user_id, created_at and
\* expires_at; when store_refresh_token raised during the call, the call is
\* answered with a failure status and returns no token
ReturnedRefreshTokenIsOnRecord ==
  hres.op \in IssuingOps =>
    /\ hres.refresh_token # NoToken =>
         \E r \in tokens_collection :
           /\ DOMAIN r = {"token", "jti", "user_id", "created_at", "expires_at"}
           /\ r.token = hres.refresh_token
           /\ r.jti = SplitSegment1(hres.refresh_token)
           /\ r.user_id = hres.refresh_token.user_id
           /\ r.expires_at = r.created_at + DaysToMinutes(7)
    /\ hres.persist = "failed" =>
         /\ hres.status # 200
         /\ hres.refresh_token = NoToken
         /\ hres.access = NoToken

\* a call that had issued tokens before ended with store_refresh_token raising
PersistingFailedAfterIssue ==
  hres.op \in IssuingOps /\ hres.persist = "failed" /\ issued # {}

(***************************************************************************)
(* The gates of SecurityMiddleware: requests of every kind on paths of     *)
(* every class (exempt or not, rate-limited or not)                        *)
(***************************************************************************)
MwPaths == {"/health", "/api/auth/register", "/api/auth/request-reset",
            "/login", "/me"}
MwMethods == {"GET", "POST", "DELETE"}
MwCsrfPairs == {<<NoCsrf, NoCsrf>>, <<NoCsrf, "c1">>, <<"c1", NoCsrf>>,
                <<"", "">>, <<"c1", "c2">>, <<"c1", "c1">>}

MwRequestAny ==
  MwRequestOn(MwPaths, MwMethods, MwCsrfPairs, {{}}, {FALSE}, HandlerOutcomes)

\* password-reset requests while the middleware has no store client or the
\* read of the counter raises
MwRequestStoreDown ==
  MwRequestOn({"/api/auth/request-reset"}, {"POST"},
              {<<"c1", "c2">>, <<"c1", "c1">>}, {{"no_redis"}, {"rate_get"}},
              {FALSE}, OkOutcome)

NextMw == CreateTokens \/ MwRequestAny \/ MwRequestStoreDown \/ Deliver
SpecMw == Init /\ [][NextMw]_vars

CsrfApplies(req) ==
  req.method \in CsrfMethods /\ req.path \notin skip_csrf_paths

\* C8 as stated: on a state-changing request to a path that is not
\* CSRF-exempt, a missing header, a missing cookie or a mismatch gives 403
\* without the handler; header and cookie present and equal pass the gate;
\* GET is never rejected by the gate
CsrfGateDecides ==
  /\ (CsrfApplies(last.req) /\
        (\/ last.req.csrf_header = NoCsrf
         \/ last.req.csrf_cookie = NoCsrf
         \/ last.req.csrf_header # last.req.csrf_cookie))
       => (last.status = 403 /\ ~last.handler)
  /\ (CsrfApplies(last.req) /\ last.req.csrf_header # NoCsrf
        /\ last.req.csrf_cookie # NoCsrf
        /\ last.req.csrf_header = last.req.csrf_cookie)
       => last.gate # "csrf"
  /\ last.req.method = "GET" => last.gate # "csrf"

\* C8 amended: the same for requests the rate-limit gate has not refused,
\* an empty header or cookie counting as missing
CsrfGateDecidesAfterRateGate ==
  /\ (CsrfApplies(last.req) /\ last.gate # "rate" /\
        (\/ last.req.csrf_header \in {NoCsrf, ""}
         \/ last.req.csrf_cookie \in {NoCsrf, ""}
         \/ last.req.csrf_header # last.req.csrf_cookie))
       => (last.status = 403 /\ ~last.handler)
  /\ (CsrfApplies(last.req) /\ last.req.csrf_header \notin {NoCsrf, ""}
        /\ last.req.csrf_cookie \notin {NoCsrf, ""}
        /\ last.req.csrf_header = last.req.csrf_cookie)
       => last.gate # "csrf"
  /\ last.req.method = "GET" => last.gate # "csrf"

\* a request with differing header and cookie was answered 403
CsrfMismatchRejected ==
  /\ CsrfApplies(last.req) /\ last.status = 403 /\ last.gate = "csrf"
  /\ last.req.csrf_header = "c1" /\ last.req.csrf_cookie = "c2"

\* C9: every response carries the six security headers
EveryResponseHasSecurityHeaders ==
  last.status # 0 => SecurityHeaders \subseteq last.headers

(***************************************************************************)
(* The API gateway (api_gateway/main.py)                                   *)
(***************************************************************************)
\* a gateway path is the sequence of its segments: "/api/chat/" is
\* <<"api", "chat", "">>.  The routes the gateway registers:
GwRoutes == {<<"GET", <<"api", "health">>>>, <<"POST", <<"api", "chat", "">>>>,
             <<"POST", <<"api", "speech-to-text", "">>>>, <<"POST", <<"api", "text-to-speech", "">>>>,
             <<"POST", <<"api", "direct-image-generation", "">>>>,
             <<"POST", <<"api", "analyze-image", "">>>>, <<"POST", <<"api", "process-image", "">>>>,
             <<"POST", <<"api", "send-sms", "">>>>, <<"POST", <<"api", "make-call", "">>>>,
             <<"GET", <<"api", "conversations", "">>>>,
             <<"GET", <<"api", "conversations", "{thread_id}">>>>,
             <<"DELETE", <<"api", "conversations", "{thread_id}">>>>,
             <<"PUT", <<"api", "conversations", "{thread_id}", "rename">>>>,
             <<"GET", <<"api", "auth", "test">>>>, <<"GET", <<"api", "auth", "csrf-token">>>>,
             <<"POST", <<"api", "auth", "register">>>>, <<"POST", <<"api", "auth", "login">>>>,
             <<"POST", <<"api", "auth", "refresh">>>>, <<"POST", <<"api", "auth", "logout">>>>,
             <<"POST", <<"api", "auth", "client-logout">>>>, <<"GET", <<"api", "auth", "me">>>>}

\* headers add_cors_headers_to_error puts on what call_next returns
CorsHeaders == {"Access-Control-Allow-Origin", "Access-Control-Allow-Credentials",
                "Access-Control-Allow-Methods", "Access-Control-Allow-Headers"}

\* request.url.path.startswith("/api/auth/") or == "/api/health"
GwAuthSkipped(path) ==
  \/ path = <<"api", "health">>
  \/ (Len(path) >= 3 /\ path[1] = "api" /\ path[2] = "auth")

\* get_current_user (GET /me of the auth service), given request.state.user
get_current_user(user) ==
  IF \E u \in users_collection : u._id = user.user_id
    THEN [raises |-> FALSE, status |-> 200, headers |-> {}]
    ELSE [raises |-> FALSE, status |-> 404, headers |-> {}]

\* the auth service's answer to GET /me with this Authorization header
AuthMe(auth, revErr) ==
  LET req == [path |-> "/me", method |-> "GET", peer |-> GatewayHost, xff |-> "",
              csrf_header |-> NoCsrf, csrf_cookie |-> NoCsrf,
              bearer |-> auth.token]
  IN SecurityMiddleware_call(req, {}, revErr,
                             get_current_user(Claims(auth.token)), now)

\* call_next of the outermost middleware: the router runs a handler when a
\* route matches method and path
GwCallNext(op, path, method, auth, validated) ==
  IF <<method, path>> \in GwRoutes
    THEN GwResponse(op, path, method, auth, 200, CorsHeaders, TRUE, validated)
    ELSE GwResponse(op, path, method, auth,
                    IF \E r \in GwRoutes : r[2] = path THEN 405 ELSE 404,
                    CorsHeaders, FALSE, validated)

\* auth_middleware; unreachable: the call to the auth service raises
\* (connection error or timeout).  [gw, called]
auth_middleware(path, method, auth, unreachable, me) ==
  IF GwAuthSkipped(path)
    THEN [gw |-> GwCallNext("request", path, method, auth, FALSE), called |-> FALSE]
  ELSE IF auth.scheme # "Bearer"
    THEN IF method = "OPTIONS"
           THEN [gw |-> GwCallNext("request", path, method, auth, FALSE),
                 called |-> FALSE]
           ELSE [gw |-> GwResponse("request", path, method, auth, 401, {}, FALSE, FALSE),
                 called |-> FALSE]
  ELSE IF unreachable
    THEN [gw |-> GwCallNext("request", path, method, auth, FALSE), called |-> FALSE]
  ELSE IF me.resp.status # 200
    THEN [gw |-> GwResponse("request", path, method, auth, 401, {}, FALSE, FALSE),
          called |-> TRUE]
  ELSE [gw |-> GwCallNext("request", path, method, auth, TRUE), called |-> TRUE]

\* a request to a gateway route that forwards nothing to the auth service
\* but the token check
GwPaths == {<<"api", "chat", "">>, <<"api", "conversations", "">>,
            <<"api", "health">>, <<"api", "auth", "test">>}
GwMethods == {"GET", "POST", "OPTIONS"}
AuthHeaders ==
  {NoAuthHeader, [scheme |-> "Basic", token |-> NoToken]}
    \cup {[scheme |-> "Bearer", token |-> t] : t \in Presentable \ {NoToken}}

GwFrame ==
  UNCHANGED <<now, ticks, win, procs, llm, conv, chat, limiter, calc>>

GwRequest ==
  /\ Idle /\ GwFrame
  /\ \E path \in GwPaths, method \in GwMethods, auth \in AuthHeaders,
        unreachable \in BOOLEAN :
       LET me == AuthMe(auth, FALSE)
           r == auth_middleware(path, method, auth, unreachable, me)
       IN /\ gw' = r.gw
          /\ last' = IF r.called THEN me.resp ELSE last
          /\ UNCHANGED <<nextJti, users_collection, tokens_collection, revoked,
                         refreshKeys, rate, block, issued, rotated, ended, revokeDone,
                         hres, gwLogins>>

\* auth_register / auth_login: POST /api/auth/register and /api/auth/login are
\* forwarded to the auth service's /register and /login, which the auth
\* service's middleware sees as a request from the gateway's address
GwForward(op, path, header, cookie, unreachable, email, pw) ==
  LET req == [path |-> path, method |-> "POST", peer |-> GatewayHost, xff |-> "",
              csrf_header |-> header, csrf_cookie |-> cookie, bearer |-> NoToken]
      ok == [raises |-> FALSE, status |-> 200, headers |-> {}]
      pre == SecurityMiddleware_call(req, {}, FALSE, ok, now)
      gwpath == <<"api", "auth", op>>
  IN IF unreachable
       THEN /\ gw' = GwResponse(op, gwpath, "POST", NoAuthHeader, 500, CorsHeaders,
                                TRUE, FALSE)
            /\ UNCHANGED <<nextJti, users_collection, tokens_collection, revoked,
                           refreshKeys, rate, block, issued, rotated, ended, revokeDone,
                           hres, last>>
     ELSE IF pre.resp.gate # "handler"
       THEN /\ gw' = GwResponse(op, gwpath, "POST", NoAuthHeader, pre.resp.status,
                                CorsHeaders, TRUE, FALSE)
            /\ last' = pre.resp
            /\ rate' = pre.rate /\ block' = pre.block
            /\ UNCHANGED <<nextJti, users_collection, tokens_collection, revoked,
                           refreshKeys, issued, rotated, ended, revokeDone, hres>>
     ELSE /\ IF op = "register" THEN register(email, pw, {})
                                ELSE login(email, pw, {})
          /\ last' = IF hres'.status = 500
                       THEN [pre.resp EXCEPT !.status = 500, !.headers = {}]
                       ELSE [pre.resp EXCEPT !.status = hres'.status,
                               !.headers = hres'.headers \cup SecurityHeaders]
          /\ gw' = GwResponse(op, gwpath, "POST", NoAuthHeader, last'.status,
                              CorsHeaders, TRUE, FALSE)
          /\ rate' = pre.rate /\ block' = pre.block

GwCsrfPairs == {<<NoCsrf, NoCsrf>>, <<"c1", "c1">>}

\* auth_register forwards the client's headers and cookies as they are
GwRegister ==
  /\ Idle /\ GwFrame /\ UNCHANGED gwLogins
  /\ \E e \in Emails, pw \in Passwords, csrf \in GwCsrfPairs, unreachable \in BOOLEAN :
       GwForward("register", "/register", csrf[1], csrf[2], unreachable, e, pw)

\* auth_login forwards the cookies and X-CSRF-Token, "" when the client sent
\* none
GwLogin ==
  /\ Idle /\ GwFrame
  /\ gwLogins < MaxGwLogins
  /\ gwLogins' = gwLogins + 1
  /\ \E e \in Emails, pw \in Passwords \cup {WrongPassword}, csrf \in GwCsrfPairs,
        unreachable \in BOOLEAN :
       GwForward("login", "/login", IF csrf[1] = NoCsrf THEN "" ELSE csrf[1],
                 csrf[2], unreachable, e, pw)

\* auth_refresh: POST /api/auth/refresh is forwarded to the auth service's
\* /refresh with the refresh token as JSON body, and with neither the
\* client's headers nor its cookies.  The gateway's answer records the token
\* of the body in place of an Authorization header.
GwRefresh ==
  /\ Idle /\ GwFrame /\ UNCHANGED gwLogins
  /\ \E R \in {t \in issued : t.type = "refresh"}, unreachable \in BOOLEAN :
       LET req == [path |-> "/refresh", method |-> "POST", peer |-> GatewayHost,
                   xff |-> "", csrf_header |-> NoCsrf, csrf_cookie |-> NoCsrf,
                   bearer |-> NoToken]
           ok == [raises |-> FALSE, status |-> 200, headers |-> {}]
           pre == SecurityMiddleware_call(req, {}, FALSE, ok, now)
           gwpath == <<"api", "auth", "refresh">>
           body == [scheme |-> "refresh_token", token |-> R]
       IN IF unreachable
            THEN /\ gw' = GwResponse("refresh", gwpath, "POST", body, 500,
                                     CorsHeaders, TRUE, FALSE)
                 /\ UNCHANGED <<nextJti, users_collection, tokens_collection,
                                revoked, refreshKeys, rate, block, issued,
                                rotated, ended, revokeDone, hres, last>>
          ELSE IF pre.resp.gate # "handler"
            THEN /\ gw' = GwResponse("refresh", gwpath, "POST", body,
                                     pre.resp.status, CorsHeaders, TRUE, FALSE)
                 /\ last' = pre.resp
                 /\ rate' = pre.rate /\ block' = pre.block
                 /\ UNCHANGED <<nextJti, users_collection, tokens_collection,
                                revoked, refreshKeys, issued, rotated, ended,
                                revokeDone, hres>>
          ELSE /\ refresh(R, {})
               /\ last' = [pre.resp EXCEPT !.status = hres'.status,
                             !.headers = hres'.headers \cup SecurityHeaders]
               /\ gw' = GwResponse("refresh", gwpath, "POST", body,
                                   last'.status, CorsHeaders, TRUE, FALSE)
               /\ rate' = pre.rate /\ block' = pre.block

NextGw == GwRegister \/ GwLogin \/ GwRefresh \/ GwRequest \/ Deliver
SpecGw == Init /\ [][NextGw]_vars

\* C4: a handler of a gateway route outside /api/auth/* and /api/health runs
\* only for a request whose bearer token the auth service validated
ProtectedHandlerOnlyAfterValidation ==
  (gw.op = "request" /\ gw.handler /\ ~GwAuthSkipped(gw.path)) => gw.validated

\* C7: of LOGIN_RATE_LIMIT + 1 login requests sent to the gateway within one
\* window, the last is answered 429
GatewayLoginsAreRateLimited ==
  (gw.op = "login" /\ gwLogins > LOGIN_RATE_LIMIT) => gw.status = 429

\* C10: every 401 of the auth service's middleware and of the gateway's
\* auth_middleware carries WWW-Authenticate
Every401HasWwwAuthenticate ==
  /\ (last.status = 401 /\ last.gate = "auth") => "WWW-Authenticate" \in last.headers
  /\ (gw.op = "request" /\ gw.status = 401) => "WWW-Authenticate" \in gw.headers

\* a refresh token whose record is stored, whose jti is not in the
\* revocation set and whose user exists
StoredUnrevoked(R) ==
  \E r \in tokens_collection :
    /\ r.token = R
    /\ ~\E e \in revoked : e.key = r.jti
    /\ \E u \in users_collection : u._id = r.user_id

\* C18: a refresh request that reaches the auth service through the gateway
\* with a stored, unrevoked refresh token of an existing user is answered 200
\* with a new token pair.
GatewayRefreshIsAnswered ==
  (gw.op = "refresh" /\ gw.status # 500 /\ StoredUnrevoked(gw.auth.token))
    => /\ gw.status = 200
       /\ hres.op = "refresh" /\ hres.status = 200
       /\ hres.refresh_token # NoToken

(***************************************************************************)
(* Concurrent refresh calls (auth_service/main.py, refresh): each await of *)
(* the handler is a step, and the steps of different calls interleave.     *)
(* The store calls answer.                                                 *)
(***************************************************************************)
ConcFrame ==
  UNCHANGED <<now, ticks, rate, block, last, hres, gw, gwLogins, win, llm,
               conv, chat, limiter, calc>>

Done(p, status) == [procs EXCEPT ![p].pc = "done", ![p].status = status]

\* the call arrives and awaits tokens_collection.find_one({"token": ...})
RefreshFindToken(p) ==
  /\ procs[p].pc = "idle"
  /\ \E R \in {t \in issued : t.type = "refresh"} :
       LET recs == {r \in tokens_collection : r.token = R}
       IN IF recs = {}
            THEN procs' = [Done(p, 401) EXCEPT ![p].R = R]
            ELSE procs' = [procs EXCEPT ![p].pc = "find_user", ![p].R = R,
                             ![p].token_record = CHOOSE r \in recs : TRUE]
  /\ ConcFrame
  /\ UNCHANGED <<nextJti, users_collection, tokens_collection, revoked,
                 refreshKeys, issued, rotated, ended, revokeDone>>

\* awaits users_collection.find_one, creates the new pair, and awaits the
\* Redis SET of revoke_token
RefreshFindUser(p) ==
  LET user_id == procs[p].token_record.user_id
      us == {u \in users_collection : u._id = user_id}
      user == CHOOSE u \in us : TRUE
  IN /\ procs[p].pc = "find_user"
     /\ ConcFrame
     /\ UNCHANGED <<users_collection, revoked, refreshKeys, issued, rotated, ended,
                    revokeDone>>
     /\ IF us = {}
          THEN /\ tokens_collection' =
                    {r \in tokens_collection : r.user_id # user_id}
               /\ procs' = Done(p, 401)
               /\ UNCHANGED nextJti
          ELSE /\ nextJti + 1 <= MaxJti
               /\ nextJti' = nextJti + 2
               /\ procs' = [procs EXCEPT ![p].pc = "revoke_set",
                              ![p].access =
                                 create_access_token(user.email, user_id, nextJti, now),
                              ![p].new_refresh_token =
                                 create_refresh_token(user.email, user_id,
                                                      nextJti + 1, now)]
               /\ UNCHANGED tokens_collection

\* revoke_token: redis_client.set(revoked:{old_jti})
RefreshRevokeSet(p) ==
  /\ procs[p].pc = "revoke_set"
  /\ revoked' = RedisSet(revoked, procs[p].token_record.jti,
                         SecondsToMinutes(REVOKED_TTL_SECONDS), now)
  /\ procs' = [procs EXCEPT ![p].pc = "revoke_delete"]
  /\ ConcFrame
  /\ UNCHANGED <<nextJti, users_collection, tokens_collection, refreshKeys,
                 issued, rotated, ended, revokeDone>>

\* revoke_token: tokens_collection.delete_one({"jti": old_jti})
RefreshRevokeDelete(p) ==
  /\ procs[p].pc = "revoke_delete"
  /\ tokens_collection' = DeleteOne(tokens_collection, procs[p].token_record.jti)
  /\ revokeDone' = revokeDone \cup {procs[p].token_record.jti}
  /\ procs' = [procs EXCEPT ![p].pc = "store_insert"]
  /\ ConcFrame
  /\ UNCHANGED <<nextJti, users_collection, revoked, refreshKeys, issued, rotated, ended>>

\* store_refresh_token: tokens_collection.insert_one
RefreshStoreInsert(p) ==
  LET new == procs[p].new_refresh_token
  IN /\ procs[p].pc = "store_insert"
     /\ tokens_collection' = tokens_collection \cup
          {[token |-> new, jti |-> SplitSegment1(new),
            user_id |-> procs[p].token_record.user_id, created_at |-> now,
            expires_at |-> now + DaysToMinutes(7)]}
     /\ procs' = [procs EXCEPT ![p].pc = "store_redis"]
     /\ ConcFrame
     /\ UNCHANGED <<nextJti, users_collection, revoked, refreshKeys, issued,
                    rotated, ended, revokeDone>>

\* store_refresh_token: redis_client.set(refresh:{jti}); the call returns 200
RefreshStoreRedis(p) ==
  LET new == procs[p].new_refresh_token
  IN /\ procs[p].pc = "store_redis"
     /\ refreshKeys' = RedisSet(refreshKeys, SplitSegment1(new),
                                SecondsToMinutes(REFRESH_KEY_TTL_SECONDS), now)
     /\ issued' = issued \cup {procs[p].access, new}
     /\ rotated' = rotated \cup {procs[p].R}
     /\ UNCHANGED ended
     /\ procs' = Done(p, 200)
     /\ ConcFrame
     /\ UNCHANGED <<nextJti, users_collection, tokens_collection, revoked,
                    revokeDone>>

FindTokenStep == \E p \in ProcIds : RefreshFindToken(p)
FindUserStep == \E p \in ProcIds : RefreshFindUser(p)
RevokeSetStep == \E p \in ProcIds : RefreshRevokeSet(p)
RevokeDeleteStep == \E p \in ProcIds : RefreshRevokeDelete(p)
StoreInsertStep == \E p \in ProcIds : RefreshStoreInsert(p)
StoreRedisStep == \E p \in ProcIds : RefreshStoreRedis(p)

NextConc ==
  \/ Register \/ Deliver
  \/ FindTokenStep \/ FindUserStep \/ RevokeSetStep \/ RevokeDeleteStep
  \/ StoreInsertStep \/ StoreRedisStep
SpecConc == Init /\ [][NextConc]_vars

\* C3: of the concurrent refresh calls that present the same refresh token at
\* most one succeeds
AtMostOneRefreshSucceedsPerToken ==
  \A p, q \in ProcIds :
    (p # q /\ procs[p].R = procs[q].R /\ procs[p].pc = "done" /\ procs[q].pc = "done")
      => ~(procs[p].status = 200 /\ procs[q].status = 200)

(***************************************************************************)
(* The LLM service serves /process requests one after another              *)
(***************************************************************************)
\* the variables of the auth service and the gateway's auth routes
authState ==
  <<nextJti, users_collection, tokens_collection, revoked, refreshKeys, rate,
    block, issued, rotated, ended, revokeDone, last, hres, gw, gwLogins, win, procs,
    limiter, calc>>

\* two histories with the same last three messages
Histories ==
  {<<Msg("user", "m1"), Msg("assistant", "m2"), Msg("user", "m3")>>,
   <<Msg("user", "m0"), Msg("user", "m1"), Msg("assistant", "m2"),
     Msg("user", "m3")>>}

LlmRequests ==
  {ProcessRequest("hello", "t1", <<>>, "", FALSE),
   ProcessRequest("hello", "t2", <<>>, "", TRUE),
   ProcessRequest("send a message to bob: \"hi\"", "t1", <<>>, "", FALSE)}
   \cup {ProcessRequest("hello", "t1", h, "", FALSE) : h \in Histories}

Reply(status, text, tool_calls, reasoning_ok) ==
  [status |-> status, text |-> text, tool_calls |-> tool_calls,
   reasoning_ok |-> reasoning_ok]

\* replies without tool calls; the provider can also fail
PlainReplies ==
  {Reply(200, "plain", <<>>, TRUE), Reply(200, "", <<>>, TRUE),
   Reply(200, "sources", <<>>, FALSE), Reply(500, "", <<>>, TRUE)}

ToolCallLists ==
  {<<ToolCall("search_web", "non2xx")>>,
   <<ToolCall("unknown_tool", "200")>>,
   <<ToolCall("send_sms", "bad_arguments")>>,
   <<ToolCall("search_web", "throws"), ToolCall("send_sms", "200")>>,
   <<ToolCall("generate_image", "200"), ToolCall("search_web", "200")>>}

\* replies that declare tool calls
ToolReplies ==
  {Reply(200, "plain", calls, TRUE) : calls \in ToolCallLists}
    \cup {Reply(200, "sources",
                <<ToolCall("send_sms", "200"),
                  ToolCall("search_web", "throws")>>, TRUE),
          Reply(200, "", <<ToolCall("make_call", "throws")>>, TRUE)}

DirectOutcomes == {"200", "non2xx", "throws"}

LlmOps == {"count_get", "count_incr", "count_ttl", "count_expire",
           "cache_get", "cache_set", "direct_cache_set"}
LlmErrSets == {{"no_redis"}} \cup {{op} : op \in LlmOps}

\* the service in state l after a POST /process
Served(l, req, reply, direct, errs, t) ==
  LET out == process_query(req, reply, direct, errs, l.counter, l.cache,
                           l.calls + 1, t)
      key == CacheKey(req)
      live == /\ out.status = 200 /\ ~out.from_cache
              /\ out.payload.message # <<>>
  IN [cache |-> out.cache, counter |-> out.counter, calls |-> l.calls + 1,
      computed |->
        IF live
        THEN {c \in l.computed : c.key # key} \cup
               {[key |-> key, payload |-> out.payload, at |-> t,
                 errs |-> errs]}
        ELSE l.computed,
      res |-> [req |-> req, status |-> out.status, payload |-> out.payload,
               from_cache |-> out.from_cache,
               provider_calls |-> out.provider_calls,
               requested |-> out.requested, dispatched |-> out.dispatched,
               special |-> out.special, errs |-> errs,
               earlier |-> {c \in l.computed : c.key = key}]]

LlmProcessOn(reqs, replies, directs, errsets) ==
  /\ Idle
  /\ llm.calls < MaxLlmCalls
  /\ \E req \in reqs, reply \in replies, direct \in directs, errs \in errsets :
       llm' = Served(llm, req, reply, direct, errs, now)
  /\ UNCHANGED <<now, ticks, authState, conv, chat>>

\* requests while every store call answers
LlmProcess == LlmProcessOn(LlmRequests, PlainReplies, DirectOutcomes, {{}})

\* turns in which the model's reply declares tool calls
LlmProcessTools ==
  LlmProcessOn({ProcessRequest("hello", "t1", <<>>, "", FALSE)}, ToolReplies,
               {"200"}, {{}})

\* requests during which the store is absent or one of its calls raises
LlmProcessFail ==
  LlmProcessOn({ProcessRequest("hello", "t1", <<>>, "", FALSE),
                ProcessRequest("send a message to bob: \"hi\"", "t1", <<>>, "",
                               FALSE)},
               {Reply(200, "plain",
                      <<ToolCall("search_web", "throws"),
                        ToolCall("send_sms", "200")>>, TRUE)},
               {"200"}, LlmErrSets)

\* Requests with other queries, served earlier in the day: they bring the
\* day's counter to one below the limit.
OtherRequests ==
  /\ Idle
  /\ CounterValue(llm.counter, now) < MAX_LLM_REQUESTS_PER_DAY - 1
  /\ llm' = [llm EXCEPT !.counter =
               {IF e.day = Today(now)
                THEN [e EXCEPT !.n = MAX_LLM_REQUESTS_PER_DAY - 1] ELSE e :
                  e \in CounterIncr(@, now, TRUE)}]
  /\ UNCHANGED <<now, ticks, authState, conv, chat>>

NextLlm ==
  LlmProcess \/ LlmProcessTools \/ LlmProcessFail \/ OtherRequests \/ Tick
    \/ Deliver
SpecLlm == Init /\ [][NextLlm]_vars


\* the parts of a content
Parts(content) == {content[k] : k \in DOMAIN content}
\* the tool calls of a reply that name a tool of the service
KnownCalls(tool_calls) ==
  {j \in DOMAIN tool_calls : tool_calls[j].name \in DOMAIN ToolLabel}

\* C12: a cache-store call that raises, on lookup or on write, is treated as
\* a miss: the request is computed live and answered 200, never with an
\* error status.
CacheFailureIsAMiss ==
  (llm.res.status # 0 /\ llm.res.errs \in {{"cache_get"}, {"cache_set"}})
    => llm.res.status = 200 /\ llm.res.provider_calls > 0

\* C13: a request whose cache key was computed live with non-empty content
\* less than the cache TTL ago, the store answering in both requests, is
\* answered 200 with exactly that payload and without a provider call; once
\* the TTL has elapsed it is not answered from the cache.
CachedPayloadReturnedWithinTtl ==
  \A c \in llm.res.earlier :
    (llm.res.status # 0 /\ llm.res.errs = {} /\ c.errs = {}) =>
      IF now < c.at + SecondsToMinutes(DEFAULT_CACHE_TTL)
      THEN /\ llm.res.status = 200
           /\ llm.res.payload = c.payload
           /\ llm.res.provider_calls = 0
      ELSE ~llm.res.from_cache

\* C14: in a turn with several tool calls of which one throws (collaborator
\* error or malformed arguments), the store answering and the provider having
\* replied, the response is a 200 envelope, every other tool call has been
\* dispatched, and every collaborator's 200 result is in the content.
ToolFailureDoesNotAbortTurn ==
  LET r == llm.res
      calls == r.requested
  IN (/\ r.errs = {}
      /\ Len(calls) >= 2
      /\ \E i \in DOMAIN calls : calls[i].outcome \in {"throws", "bad_arguments"})
     => /\ r.status = 200
        /\ \A j \in KnownCalls(calls) :
             calls[j].outcome # "bad_arguments" =>
               \E k \in DOMAIN r.dispatched : r.dispatched[k] = j
        /\ \A j \in KnownCalls(calls) :
             calls[j].outcome = "200" =>
               ResultPart(calls[j].name, j) \in Parts(r.payload.message)

\* C15: every tool call of a turn whose collaborator call fails, by raising
\* or by a status other than 2xx, has its error note in the content of the
\* response.
EveryFailedToolCallHasErrorNote ==
  LET r == llm.res
      calls == r.requested
  IN (r.status = 200 /\ r.errs = {}) =>
       \A j \in KnownCalls(calls) :
         calls[j].outcome \in {"throws", "non2xx"} =>
           ErrorNote(calls[j].name, j) \in Parts(r.payload.message)

(***************************************************************************)
(* The conversation service serves its calls one after another             *)
(***************************************************************************)
ConvErrSets == {{}, {"find_one"}, {"update_one"}, {"insert_one"}}
ConvTargets == ClientThreadIds \cup {ThreadIdPool[1]}
HistoryLimits == {HISTORY_LIMIT, 0, 1}
\* turns a thread has seen before the calls of the model
EarlierPairs == (HISTORY_LIMIT - 2) \div 2

ConvRes(cv, op, req_thread_id, limit, out, errs) ==
  [op |-> op, req_thread_id |-> req_thread_id, limit |-> limit,
   status |-> out.status, thread_id |-> out.thread_id,
   messages |-> out.messages, existed |-> {c.thread_id : c \in cv.threads},
   errs |-> errs]

\* what a successful call of a client added to the thread, as the client
\* knows it
Logged(cv, out, m) ==
  IF out.status = 200 THEN [cv.log EXCEPT ![out.thread_id] = Append(@, m)]
  ELSE cv.log

\* the service in state cv after a POST /store
Stored(cv, tid, message, errs, t) ==
  LET out == store_message(cv.threads, cv.fresh, tid, message, errs, t)
  IN [threads |-> out.threads, fresh |-> out.fresh,
      log |-> Logged(cv, out, Message("user", TextOf(message), t, NoMetadata)),
      calls |-> cv.calls + 1,
      res |-> ConvRes(cv, "store", tid, 0, out, errs)]

\* the service in state cv after a POST /update
Updated(cv, tid, text, metadata, errs, t) ==
  LET out == update_conversation(cv.threads, cv.fresh, tid, text, metadata,
                                 errs, t)
  IN [threads |-> out.threads, fresh |-> out.fresh,
      log |-> Logged(cv, out, Message("assistant", text, t, metadata)),
      calls |-> cv.calls + 1,
      res |-> ConvRes(cv, "update", tid, 0, out, errs)]

Store ==
  /\ Idle
  /\ conv.calls < MaxConvCalls
  /\ \E tid \in ClientThreadIds \cup {""}, errs \in ConvErrSets :
       conv' = Stored(conv, tid, "hello", errs, now)
  /\ UNCHANGED <<now, ticks, authState, llm, chat>>

Update ==
  /\ Idle
  /\ conv.calls < MaxConvCalls
  /\ \E tid \in ConvTargets, errs \in {{}, {"update_one"}} :
       conv' = Updated(conv, tid, <<ReplyPart("plain", 0)>>, NoMetadata, errs,
                       now)
  /\ UNCHANGED <<now, ticks, authState, llm, chat>>

History ==
  /\ Idle
  /\ \E tid \in ConvTargets, limit \in HistoryLimits,
        errs \in {{}, {"find_one"}} :
       LET out == get_history(conv.threads, conv.fresh, tid, limit, errs)
       IN conv' = [conv EXCEPT !.res = ConvRes(conv, "history", tid, limit,
                                               out, errs)]
  /\ UNCHANGED <<now, ticks, authState, llm, chat>>

\* delete_conversation, or the TTL index on last_updated, removes a thread
DeleteThread ==
  /\ Idle
  /\ \E c \in conv.threads :
       conv' = [conv EXCEPT !.threads = @ \ {c},
                            !.log[c.thread_id] = <<>>]
  /\ UNCHANGED <<now, ticks, authState, llm, chat>>

\* EarlierPairs turns (a store call and an update call each) on a thread
EarlierTurns ==
  /\ Idle
  /\ \E c \in conv.threads :
       /\ Len(c.messages) < 2 * EarlierPairs
       /\ LET more == [i \in 1..(2 * EarlierPairs) |->
                         IF i % 2 = 1
                         THEN Message("user", TextOf("earlier"), now, NoMetadata)
                         ELSE Message("assistant", <<ReplyPart("plain", 0)>>,
                                      now, NoMetadata)]
          IN conv' = [conv EXCEPT
                        !.threads = (@ \ {c}) \cup
                                      {[c EXCEPT !.messages = @ \o more]},
                        !.log[c.thread_id] = @ \o more]
  /\ UNCHANGED <<now, ticks, authState, llm, chat>>

NextConv ==
  Store \/ Update \/ History \/ DeleteThread \/ EarlierTurns \/ Deliver
SpecConv == Init /\ [][NextConv]_vars

\* C17 as stated: a store call without thread_id creates a thread with a id
\* not in use and exactly the one user message; a history call returns all
\* messages of the successful store and update calls on the thread, in call
\* order.
HistoryReturnsAllInCallOrder ==
  LET r == conv.res
  IN /\ (r.op = "store" /\ r.req_thread_id = "" /\ r.status = 200) =>
          /\ r.thread_id \notin r.existed
          /\ \E c \in conv.threads :
               /\ c.thread_id = r.thread_id
               /\ c.messages = conv.log[r.thread_id]
               /\ Len(c.messages) = 1
               /\ c.messages[1].role = "user"
               /\ c.messages[1].content = TextOf("hello")
     /\ (r.op = "history" /\ r.limit = HISTORY_LIMIT /\ r.status = 200) =>
          r.messages = conv.log[r.thread_id]

\* C17 amended: as above, but a history call returns the last limit messages
\* of the thread (the last 100 by default, all with limit 0) in call order.
HistoryReturnsLastMessagesInCallOrder ==
  LET r == conv.res
  IN /\ (r.op = "store" /\ r.req_thread_id = "" /\ r.status = 200) =>
          /\ r.thread_id \notin r.existed
          /\ \E c \in conv.threads :
               /\ c.thread_id = r.thread_id
               /\ c.messages = conv.log[r.thread_id]
               /\ Len(c.messages) = 1
               /\ c.messages[1].role = "user"
               /\ c.messages[1].content = TextOf("hello")
     /\ (r.op = "history" /\ r.status = 200) =>
          r.messages = IF r.limit > 0
                       THEN LastN(conv.log[r.thread_id], r.limit)
                       ELSE conv.log[r.thread_id]
     /\ (r.op = "history" /\ r.errs = {} /\ conv.log[r.thread_id] # <<>>) =>
          r.status = 200

\* a history call on a thread that holds more messages than the default limit
HistoryOfLongThread ==
  /\ conv.res.op = "history" /\ conv.res.status = 200
  /\ conv.res.limit = HISTORY_LIMIT
  /\ Len(conv.log[conv.res.thread_id]) > HISTORY_LIMIT
  /\ Len(conv.res.messages) = HISTORY_LIMIT

(***************************************************************************)
(* The gateway's chat turn (backend/api_gateway/main.py, chat_endpoint)    *)
(***************************************************************************)
\* chat turns in one behaviour
MaxTurns == 2

\* What the network does to a call of the gateway: the call is answered; it
\* never reaches the service; or the service serves it but the gateway's
\* client gives up waiting.  In the last two cases client.post raises.
Transports == {"answered", "unreachable", "timeout"}
Transport(store, process, update) ==
  [store |-> store, process |-> process, update |-> update]

ChatCall(name, status) == [call |-> name, status |-> status]
\* the status the gateway sees of a call
Seen(transport, status) == IF transport = "answered" THEN status ELSE 0

\* mutant: the gateway goes on whatever a call answered
CallFailed_never(status) == FALSE
\* if response.status_code != 200: return
CallFailed(status) == status # 200

\* chat_endpoint(request) with the services in states cv and l: the states it
\* leaves them in, and its answer
chat_endpoint(cv, l, data, tr, serrs, reply, lerrs, uerrs, t) ==
  CHOOSE out \in
    {LET s1 == Seen(tr.store, cv1.res.status)
         thread_id == cv1.res.thread_id
         answer(status, calls, res) ==
           [status |-> status, calls |-> calls, result |-> res,
            thread_id |-> thread_id, req_thread_id |-> data.thread_id]
     IN IF s1 = 0
        THEN [conv |-> cv1, llm |-> l,
              res |-> answer(500, <<ChatCall("store", s1)>>, NoPayload)]
        ELSE IF CallFailed(s1)
        THEN [conv |-> cv1, llm |-> l,
              res |-> answer(s1, <<ChatCall("store", s1)>>, NoPayload)]
        ELSE CHOOSE processed \in
          {LET s2 == Seen(tr.process, l1.res.status)
               result == l1.res.payload
               calls == <<ChatCall("store", s1), ChatCall("process", s2)>>
           IN IF s2 = 0
              THEN [conv |-> cv1, llm |-> l1, res |-> answer(500, calls, NoPayload)]
              ELSE IF CallFailed(s2)
              THEN [conv |-> cv1, llm |-> l1, res |-> answer(s2, calls, NoPayload)]
              ELSE CHOOSE updated \in
                {LET s3 == Seen(tr.update, cv2.res.status)
                     all == Append(calls, ChatCall("update", s3))
                 IN \* the answer of /update is not looked at
                    IF s3 = 0
                    THEN [conv |-> cv2, llm |-> l1,
                          res |-> answer(500, all, NoPayload)]
                    ELSE [conv |-> cv2, llm |-> l1,
                          res |-> answer(200, all, result)] :
                 cv2 \in {IF tr.update = "unreachable" THEN cv1
                          ELSE Updated(cv1, thread_id, result.message,
                                       [tools_used |-> result.tools_used,
                                        image_urls |-> result.image_urls,
                                        reasoning |-> result.reasoning],
                                       uerrs, t)}} : TRUE :
           l1 \in {IF tr.process = "unreachable" THEN l
                   ELSE Served(l, [query |-> data.content,
                                   thread_id |-> thread_id,
                                   mode |-> "explore",
                                   conversation_history |-> cv1.res.messages,
                                   image_context |-> "",
                                   include_reasoning |-> data.include_reasoning],
                               reply, "200", lerrs, t)}} : TRUE :
     cv1 \in {IF tr.store = "unreachable" THEN cv
              ELSE Stored(cv, data.thread_id, data.content, serrs, t)}} : TRUE

ChatData(thread_id, content, include_reasoning) ==
  [thread_id |-> thread_id, content |-> content,
   include_reasoning |-> include_reasoning]

ChatTransports ==
  {Transport("answered", "answered", "answered"),
   Transport("unreachable", "answered", "answered"),
   Transport("timeout", "answered", "answered"),
   Transport("answered", "timeout", "answered"),
   Transport("answered", "answered", "unreachable"),
   Transport("answered", "answered", "timeout")}

ChatReplies ==
  {Reply(200, "plain", <<>>, TRUE), Reply(200, "", <<>>, TRUE),
   Reply(500, "", <<>>, TRUE),
   Reply(200, "plain", <<ToolCall("generate_image", "200")>>, TRUE)}

ChatTurn ==
  /\ Idle
  /\ chat.turns < MaxTurns
  /\ \E tid \in ClientThreadIds \cup {""}, tr \in ChatTransports,
        serrs \in {{}, {"find_one"}}, reply \in ChatReplies,
        lerrs \in {{}, {"cache_get"}}, uerrs \in {{}, {"update_one"}} :
       LET out == chat_endpoint(conv, llm, ChatData(tid, "hello", TRUE), tr,
                                serrs, reply, lerrs, uerrs, now)
       IN /\ conv' = out.conv
          /\ llm' = out.llm
          /\ chat' = [chat EXCEPT !.turns = @ + 1, !.res = out.res]
  /\ UNCHANGED <<now, ticks, authState>>

NextChat == ChatTurn \/ DeleteThread \/ Deliver
SpecChat == Init /\ [][NextChat]_vars

\* C16: in a chat turn the gateway issues /process only after /store has
\* answered 200 and /update only after /process has answered 200: the calls of
\* a turn are a prefix of store, process, update, and every call but the last
\* one issued has answered 200.
ChatCallsInOrder ==
  LET cs == chat.res.calls
  IN /\ Len(cs) <= 3
     /\ \A i \in DOMAIN cs : cs[i].call = <<"store", "process", "update">>[i]
     /\ \A i \in DOMAIN cs : i < Len(cs) => cs[i].status = 200
     /\ chat.res.status # 0 => Len(cs) >= 1

\* a turn that ended after its /process call had failed
TurnEndedAtFailedProcess ==
  /\ Len(chat.res.calls) = 2
  /\ chat.res.calls[1] = ChatCall("store", 200)
  /\ chat.res.calls[2].status \notin {0, 200}
  /\ chat.res.status = chat.res.calls[2].status

(***************************************************************************)
(* _check_rate_limit calls running concurrently: the gateway and the auth  *)
(* service serve requests as coroutines, which interleave at every await.  *)
(* One step is one awaited Redis call together with the local code up to   *)
(* the next await or the return.                                           *)
(***************************************************************************)
MaxInFlight == 2
\* login calls of one burst
MaxBurst == 6
MaxRaises == 1
\* admissions per key are counted up to this number
MaxAdmitted == 7
Counted(n) == IF n > MaxAdmitted THEN MaxAdmitted ELSE n

RlPaths == {"/api/auth/login", "/api/auth/register"}
\* calls of one route that may be in progress at once
RlCap(path) == IF path = "/api/auth/login" THEN MaxInFlight ELSE 1

InFlight(path) ==
  LET cs == {c \in BagToSet(limiter.calls) : c.path = path}
      RECURSIVE Sum(_)
      Sum(S) == IF S = {} THEN 0
                ELSE LET c == CHOOSE x \in S : TRUE
                     IN CopiesIn(c, limiter.calls) + Sum(S \ {c})
  IN Sum(cs)

\* mutant: a blocked identity is let through
BlockVerdict_open == "admit"
\* if is_blocked: return False
BlockVerdict == "refuse"

\* the verdict of the except branches: return True
ErrorVerdict == IF RateLimitErrorVerdict THEN "admit" ELSE "refuse"

\* whether a store call of this step raises
RlRaise(raise) == limiter.raises + (IF raise THEN 1 ELSE 0)

\* the call returns
RlReturn(c, inflight, verdict, via, raise) ==
  limiter' = [calls |-> inflight,
         admitted |-> IF verdict = "admit" /\ via = "counter"
                        THEN [limiter.admitted EXCEPT ![<<c.ip, c.path>>] = Counted(@ + 1)]
                        ELSE limiter.admitted,
         raises |-> RlRaise(raise),
         res |-> RlRes(c, verdict, via, rate, block)]

\* the call goes on to its next store call
RlGoto(c, inflight, pc, raise) ==
  limiter' = [limiter EXCEPT !.calls = inflight (+) SetToBag({[c EXCEPT !.pc = pc]}),
                   !.raises = RlRaise(raise)]

RlFrame ==
  UNCHANGED <<now, ticks, nextJti, users_collection, tokens_collection, revoked,
              refreshKeys, issued, rotated, ended, revokeDone, last, hres, gw,
              gwLogins, win, procs, llm, conv, chat, calc>>

Raises == IF limiter.raises < MaxRaises THEN BOOLEAN ELSE {FALSE}

\* a request arrives: self.redis is tested, then redis.get(block_key)
RlBlockGet ==
  /\ Idle /\ RlFrame
  /\ \E ip \in ClientIps, path \in RlPaths, raise \in Raises, no_redis \in Raises :
       LET c == RlCall(ip, path, "rate_get", Live(block[ip], now),
                       ~raise /\ ~no_redis)
       IN /\ InFlight(path) < RlCap(path)
          /\ ~(raise /\ no_redis)
          /\ UNCHANGED <<rate, block>>
          /\ IF no_redis
               THEN RlReturn(c, limiter.calls, "admit", "no_redis", TRUE)
             ELSE IF ~raise /\ Live(block[ip], now)
               THEN RlReturn(c, limiter.calls, BlockVerdict, "block", FALSE)
             ELSE RlGoto(c, limiter.calls, "rate_get", raise)

\* count = redis.get(rate_key), and the comparison with the limit
RlRateGet ==
  /\ Idle /\ RlFrame
  /\ \E c \in BagToSet(limiter.calls), raise \in Raises :
       LET rest == limiter.calls (-) SetToBag({c})
           count == RateCount(c.ip, c.path, now)
       IN /\ c.pc = "rate_get"
          /\ UNCHANGED <<rate, block>>
          /\ IF raise THEN RlReturn(c, rest, ErrorVerdict, "error", TRUE)
             ELSE IF OverLimit(count, rate_limit_paths[c.path])
               THEN IF c.path = "/api/auth/login" /\ count >= IP_BLOCK_THRESHOLD
                      THEN RlGoto(c, rest, "block_set", FALSE)
                      ELSE RlReturn(c, rest, "refuse", "limit", FALSE)
             ELSE IF count = 0 THEN RlGoto(c, rest, "rate_set", FALSE)
             ELSE RlGoto(c, rest, "rate_incr", FALSE)

\* redis.set(block_key, "1", ex=RATE_LIMIT_WINDOW), then return False
RlBlockSet ==
  /\ Idle /\ RlFrame
  /\ \E c \in BagToSet(limiter.calls), raise \in Raises :
       /\ c.pc = "block_set"
       /\ UNCHANGED rate
       /\ block' = IF raise THEN block
                   ELSE [block EXCEPT ![c.ip] =
                           now + SecondsToMinutes(RATE_LIMIT_WINDOW)]
       /\ RlReturn(c, limiter.calls (-) SetToBag({c}), "refuse", "limit", raise)

\* redis.set(rate_key, "1", ex=RATE_LIMIT_WINDOW), then return True
RlRateSet ==
  /\ Idle /\ RlFrame
  /\ \E c \in BagToSet(limiter.calls), raise \in Raises :
       LET rest == limiter.calls (-) SetToBag({c})
       IN /\ c.pc = "rate_set"
          /\ UNCHANGED block
          /\ IF raise
               THEN /\ UNCHANGED rate
                    /\ RlReturn(c, rest, ErrorVerdict, "error", TRUE)
               ELSE /\ rate' = [rate EXCEPT ![<<c.ip, c.path>>] =
                                  [count |-> 1,
                                   exp |-> now + SecondsToMinutes(RATE_LIMIT_WINDOW)]]
                    /\ RlReturn(c, rest, "admit", "counter", FALSE)

\* redis.incr(rate_key): a key that is gone is created with value 1
RlRateIncr ==
  /\ Idle /\ RlFrame
  /\ \E c \in BagToSet(limiter.calls), raise \in Raises :
       LET rest == limiter.calls (-) SetToBag({c})
           k == <<c.ip, c.path>>
       IN /\ c.pc = "rate_incr"
          /\ UNCHANGED block
          /\ IF raise
               THEN /\ UNCHANGED rate
                    /\ RlReturn(c, rest, ErrorVerdict, "error", TRUE)
               ELSE /\ rate' = [rate EXCEPT ![k] =
                                  IF Live(rate[k].exp, now)
                                    THEN [count |-> rate[k].count + 1,
                                          exp |-> rate[k].exp]
                                    ELSE [count |-> 1, exp |-> NoTtl]]
                    /\ RlGoto(c, rest, "rate_expire", FALSE)

\* redis.expire(rate_key, RATE_LIMIT_WINDOW), then return True
RlRateExpire ==
  /\ Idle /\ RlFrame
  /\ \E c \in BagToSet(limiter.calls), raise \in Raises :
       LET rest == limiter.calls (-) SetToBag({c})
           k == <<c.ip, c.path>>
       IN /\ c.pc = "rate_expire"
          /\ UNCHANGED block
          /\ IF raise
               THEN /\ UNCHANGED rate
                    /\ RlReturn(c, rest, ErrorVerdict, "error", TRUE)
               ELSE /\ rate' = IF Live(rate[k].exp, now)
                                 THEN [rate EXCEPT ![k].exp =
                                         now + SecondsToMinutes(RATE_LIMIT_WINDOW)]
                                 ELSE rate
                    /\ RlReturn(c, rest, "admit", "counter", FALSE)

RlStep ==
  RlBlockGet \/ RlRateGet \/ RlBlockSet \/ RlRateSet \/ RlRateIncr \/ RlRateExpire

\* MaxBurst login requests of one client arrive together and run in this
\* order: every call looks for a block entry and reads the counter before
\* any of them increments it; then every call increments it, sets its TTL
\* and returns True
LoginBurst ==
  /\ Idle /\ RlFrame
  /\ limiter.calls = EmptyBag
  /\ \E ip \in ClientIps :
       LET path == "/api/auth/login"
           k == <<ip, path>>
           count == RateCount(ip, path, now)
           c == RlCall(ip, path, "rate_expire", FALSE, TRUE)
       IN /\ ~Live(block[ip], now)
          /\ count # 0 /\ ~OverLimit(count, rate_limit_paths[path])
          /\ rate' = [rate EXCEPT ![k] =
                        [count |-> count + MaxBurst,
                         exp |-> now + SecondsToMinutes(RATE_LIMIT_WINDOW)]]
          /\ limiter' = [limiter EXCEPT
                           !.admitted[k] = Counted(@ + MaxBurst),
                           !.res = RlRes(c, "admit", "counter",
                                         [rate EXCEPT ![k].count = count + MaxBurst - 1],
                                         block)]
          /\ UNCHANGED block

\* the clock moves on by one window: keys set a window ago are dropped
WindowPasses == TickBy({SecondsToMinutes(RATE_LIMIT_WINDOW)})

NextRl == RlStep \/ LoginBurst \/ WindowPasses \/ Deliver
SpecRl == Init /\ [][NextRl]_vars

Returned == limiter.res.verdict # "none"

\* C21 as stated: a call that arrives while a block entry of its identity
\* exists is refused, on every rate-limited route and whatever the counter,
\* and leaves the counters unchanged; once the entry has expired the call is
\* not refused for it
BlockedIdentityIsRefused ==
  Returned =>
    /\ limiter.res.blocked =>
         /\ limiter.res.verdict = "refuse"
         /\ rate = limiter.res.rate_before
    /\ ~limiter.res.blocked => limiter.res.via # "block"

\* C21 amended: the same for calls whose lookup of the block entry answered;
\* without a store client, or when the lookup raises, the counters decide
BlockSeenIsRefused ==
  Returned =>
    /\ (limiter.res.blocked /\ limiter.res.looked) =>
         /\ limiter.res.verdict = "refuse"
         /\ limiter.res.via = "block"
         /\ rate = limiter.res.rate_before
         /\ block = limiter.res.block_before
    /\ ~limiter.res.blocked => limiter.res.via # "block"

\* a register call refused for the block entry although its own counter is
\* below the register limit
BlockedRegisterRefused ==
  /\ Returned
  /\ limiter.res.via = "block"
  /\ limiter.res.path = "/api/auth/register"
  /\ ~OverLimit(RateCount(limiter.res.ip, limiter.res.path, now),
                REGISTER_RATE_LIMIT)

\* the server runs every call it has accepted to its end and sends every
\* answer: the event loop leaves no coroutine waiting forever
SpecRlFair == SpecRl /\ WF_vars(RlStep) /\ WF_vars(Deliver)

AtLoginLimit(ip) ==
  OverLimit(RateCount(ip, "/api/auth/login", now), LOGIN_RATE_LIMIT)

KeepsSendingLogins ==
  []<>(Returned /\ limiter.res.path = "/api/auth/login")

\* C22: when a client keeps sending login requests after its login counter
\* has reached the limit, a block entry for it is eventually written, unless
\* the window of the counter ends first
LoginLimitLeadsToBlock ==
  KeepsSendingLogins =>
    \A ip \in ClientIps :
      AtLoginLimit(ip) ~> (Live(block[ip], now) \/ ~AtLoginLimit(ip))

\* C28: whatever the interleaving of the calls on one key, no step lowers
\* the stored counter of a key while the key lives
CounterNeverDecreases ==
  [][\A k \in DOMAIN rate :
       (Live(rate[k].exp, now) /\ Live(rate'[k].exp, now'))
         => rate'[k].count >= rate[k].count]_vars

\* C29: whatever the interleaving of the calls on one key, the counter admits
\* at most limit + 1 of them between the creation of the key and its expiry
AdmittedAtMostLimitPlusOne ==
  \A k \in DOMAIN rate :
    k[2] \in RlPaths => limiter.admitted[k] <= rate_limit_paths[k[2]] + 1

(***************************************************************************)
(* Table formatting (llm_service/main.py; src/app.py holds the same code). *)
(* A line is a sequence of characters, a text the sequence of its lines:   *)
(* text.split('\n') on the way in, '\n'.join on the way out.               *)
(***************************************************************************)
StrCount(line, ch) == Cardinality({i \in 1..Len(line) : line[i] = ch})

\* '---' in line
HasRule(line) ==
  \E i \in 1..(Len(line) - 2) :
     line[i] = "-" /\ line[i + 1] = "-" /\ line[i + 2] = "-"

RECURSIVE StrLStrip(_)
StrLStrip(line) ==
  IF line # <<>> /\ Head(line) = " " THEN StrLStrip(Tail(line)) ELSE line

RECURSIVE StrRStrip(_)
StrRStrip(line) ==
  IF line # <<>> /\ line[Len(line)] = " "
    THEN StrRStrip(SubSeq(line, 1, Len(line) - 1)) ELSE line

StrStrip(line) == StrRStrip(StrLStrip(line))

RECURSIVE StrSplit(_, _)
StrSplit(line, ch) ==
  IF StrCount(line, ch) = 0 THEN <<line>>
  ELSE LET i == CHOOSE j \in 1..Len(line) :
                   line[j] = ch /\ \A h \in 1..(j - 1) : line[h] # ch
       IN <<SubSeq(line, 1, i - 1)>> \o StrSplit(SubSeq(line, i + 1, Len(line)), ch)

RECURSIVE StrJoin(_, _)
StrJoin(sep, parts) ==
  IF parts = <<>> THEN <<>>
  ELSE IF Len(parts) = 1 THEN parts[1]
  ELSE parts[1] \o sep \o StrJoin(sep, Tail(parts))

\* one line of the table: outer pipes and whitespace stripped, cells
\* stripped, written again as '| a | b |'
CleanedLine(raw) ==
  LET line == StrStrip(raw)
      l1 == IF line # <<>> /\ Head(line) = "|" THEN Tail(line) ELSE line
      l2 == IF l1 # <<>> /\ l1[Len(l1)] = "|" THEN SubSeq(l1, 1, Len(l1) - 1) ELSE l1
      cells == [i \in 1..Len(StrSplit(l2, "|")) |-> StrStrip(StrSplit(l2, "|")[i])]
  IN <<"|", " ">> \o StrJoin(<<" ", "|", " ">>, cells) \o <<" ", "|">>

\* the lines of the table built from table_lines: the first cleaned line, a
\* separator row, the other cleaned lines
format_as_markdown_table(table_lines) ==
  IF table_lines = <<>> THEN <<<<>>>>
  ELSE LET cleaned_lines == [i \in 1..Len(table_lines) |-> CleanedLine(table_lines[i])]
           cell_count == Len(StrSplit(cleaned_lines[1], "|")) - 1
           separator == <<"|">> \o StrJoin(<<"|">>, [i \in 1..cell_count |-> <<"-", "-", "-">>])
                        \o <<"|">>
       IN <<cleaned_lines[1], separator>> \o Tail(cleaned_lines)

\* the loop over the lines: done the lines written so far, table_data the
\* table lines collected since the last other line
RECURSIVE FormatLines(_, _, _, _)
FormatLines(lines, in_table, table_data, done) ==
  IF lines = <<>>
    THEN IF in_table THEN done \o format_as_markdown_table(table_data) ELSE done
  ELSE LET line == Head(lines)
       IN IF StrCount(line, "|") > 2 /\ ~HasRule(line)
            THEN FormatLines(Tail(lines), TRUE,
                             (IF in_table THEN table_data ELSE <<>>) \o <<line>>, done)
          ELSE FormatLines(Tail(lines), FALSE, table_data,
                           (IF in_table THEN done \o format_as_markdown_table(table_data)
                            ELSE done) \o <<line>>)

format_table_response(text) ==
  IF \A i \in 1..Len(text) : StrCount(text[i], "|") = 0 THEN text
  ELSE FormatLines(text, FALSE, <<>>, <<>>)

MaxLines == 3
HeaderRow == <<"|", " ", "a", " ", "|", " ", "b", " ", "|">>
RuleRow == <<"|", "-", "-", "-", "|", "-", "-", "-", "|">>
DataRow == <<"|", " ", "b", " ", "|", " ", "a", " ", "|">>
NarrowRow == <<"|", " ", "a", " ", "|">>
NarrowRule == <<"|", "-", "-", "-", "|">>
LooseRow == <<"a", "|", "b", "|", "a", "|", "b">>
TableLines == {HeaderRow, RuleRow, DataRow, NarrowRow, NarrowRule, LooseRow, <<"a">>}
Texts == UNION {[1..n -> TableLines] : n \in 1..MaxLines}

CalcFrame ==
  UNCHANGED <<now, ticks, nextJti, users_collection, tokens_collection, revoked,
              refreshKeys, rate, block, issued, rotated, ended, revokeDone, last,
              hres, gw, gwLogins, win, procs, llm, conv, chat, limiter>>

\* the LLM service formats the content of a reply
FormatTable ==
  /\ CalcFrame
  /\ \E text \in Texts :
       calc' = [fn |-> "format_table_response", arg |-> text,
                out |-> format_table_response(text)]

NextTable == FormatTable
SpecTable == Init /\ [][NextTable]_vars

\* a table row: it starts and ends with a pipe and holds no rule
IsRow(line) ==
  /\ Len(line) >= 2 /\ Head(line) = "|" /\ line[Len(line)] = "|"
  /\ ~HasRule(line)

\* a separator row: pipes and dashes only, three dashes or more per column
IsRuleRow(line) ==
  /\ Len(line) >= 2 /\ Head(line) = "|" /\ line[Len(line)] = "|"
  /\ \A i \in 1..Len(line) : line[i] \in {"|", "-"}
  /\ \A i \in 2..Len(StrSplit(line, "|")) - 1 : Len(StrSplit(line, "|")[i]) >= 3

\* a header row, a separator row and data rows, all of as many columns
WellFormedTable(text) ==
  /\ Len(text) >= 2
  /\ IsRow(text[1]) /\ IsRuleRow(text[2])
  /\ \A i \in 3..Len(text) : IsRow(text[i])
  /\ \A i \in 1..Len(text) : StrCount(text[i], "|") = StrCount(text[1], "|")

\* C23: format_table_response returns a well-formed markdown table unchanged,
\* and formatting its result again changes nothing
WellFormedTableIsKept ==
  (calc.fn = "format_table_response" /\ WellFormedTable(calc.arg))
    => /\ calc.out = calc.arg
       /\ format_table_response(calc.out) = calc.out

(***************************************************************************)
(* Phone numbers (notification_service/main.py; src/src/tools/twilio.py    *)
(* holds the same code).  A number is a sequence of characters.            *)
(***************************************************************************)
StartsWith(str, prefix) ==
  Len(str) >= Len(prefix) /\ SubSeq(str, 1, Len(prefix)) = prefix

PhoneFiller == {" ", "-", "(", ")"}

\* re.sub(r'[\s\-\(\)]', '', phone_number)
CleanedNumber(phone_number) ==
  LET Kept(ch) == ch \notin PhoneFiller IN SelectSeq(phone_number, Kept)

\* mutant: the leading 0 of a UK mobile number is kept
format_phone_number_keep0(phone_number) ==
  LET cleaned == CleanedNumber(phone_number)
  IN IF StartsWith(cleaned, <<"0", "7">>) /\ Len(cleaned) = 11
       THEN <<"+", "4", "4">> \o cleaned
     ELSE IF StartsWith(cleaned, <<"+">>) THEN cleaned
     ELSE IF StartsWith(cleaned, <<"0", "0">>)
       THEN <<"+">> \o SubSeq(cleaned, 3, Len(cleaned))
     ELSE IF Len(cleaned) = 10 \/ Len(cleaned) = 11
       THEN <<"+", "4", "4">>
            \o (IF StartsWith(cleaned, <<"0">>) THEN Tail(cleaned) ELSE cleaned)
     ELSE <<"+">> \o cleaned
format_phone_number(phone_number) ==
  LET cleaned == CleanedNumber(phone_number)
  IN IF StartsWith(cleaned, <<"0", "7">>) /\ Len(cleaned) = 11
       THEN <<"+", "4", "4">> \o Tail(cleaned)
     ELSE IF StartsWith(cleaned, <<"+">>) THEN cleaned
     ELSE IF StartsWith(cleaned, <<"0", "0">>)
       THEN <<"+">> \o SubSeq(cleaned, 3, Len(cleaned))
     ELSE IF Len(cleaned) = 10 \/ Len(cleaned) = 11
       THEN <<"+", "4", "4">>
            \o (IF StartsWith(cleaned, <<"0">>) THEN Tail(cleaned) ELSE cleaned)
     ELSE <<"+">> \o cleaned

NumberPrefixes == {<<"0", "7">>, <<"+">>, <<"0", "0">>, <<"0">>, <<>>}
NumberBodies ==
  {<<"9", "1", "1", "1", "2", "3", "4", "5", "6">>,
   <<"1", "5", "5", "5", "1", "2", "3", "4", "5", "6", "7">>,
   <<"4", "4", "7", "9", "1", "1", "1", "2", "3", "4", "5", "6">>,
   <<"9", "1", "1", "1", "2", "3", "4">>,
   <<"9", "1", "1", "1", "2", "3", "4", "5", "6", "7">>}
\* the ways a caller writes a number: plain, after a space, the first
\* three characters in parentheses, in groups set apart by dashes or spaces
Writings == {"plain", "space", "parens", "dashes", "groups"}
Written(str, how) ==
  LET a == SubSeq(str, 1, 3)
      b == SubSeq(str, 4, 6)
      c == SubSeq(str, 7, Len(str))
  IN CASE how = "plain" -> str
       [] how = "space" -> <<" ">> \o str
       [] how = "parens" -> <<"(">> \o a \o <<")">> \o <<" ">> \o b \o c
       [] how = "dashes" -> a \o <<"-">> \o b \o <<"-">> \o c
       [] how = "groups" -> a \o <<" ">> \o b \o <<" ">> \o c \o <<" ">>
PhoneNumbers ==
  {Written(p \o b, how) : p \in NumberPrefixes, b \in NumberBodies, how \in Writings}

\* the notification service formats the recipient of a message
FormatPhone ==
  /\ CalcFrame
  /\ \E phone_number \in PhoneNumbers :
       calc' = [fn |-> "format_phone_number", arg |-> phone_number,
                out |-> format_phone_number(phone_number)]

NextPhone == FormatPhone
SpecPhone == Init /\ [][NextPhone]_vars

\* the characters of str that are no space, dash or parenthesis, in order
RECURSIVE Bare(_)
Bare(str) ==
  IF str = <<>> THEN <<>>
  ELSE IF Head(str) \in {" ", "-", "(", ")"} THEN Bare(Tail(str))
  ELSE <<Head(str)>> \o Bare(Tail(str))

\* C24: with spaces, dashes and parentheses taken out, a number of 11
\* characters that starts with 07 becomes +44 and the number without its
\* leading 0, a number that starts with + is returned as it is, a number
\* that starts with 00 becomes + and the rest; 07911123456 becomes
\* +447911123456, +15551234567 stays, 00447911123456 becomes +447911123456
PhoneNumberIsNormalised ==
  calc.fn = "format_phone_number" =>
    LET n == Bare(calc.arg)
    IN /\ (Len(n) = 11 /\ n[1] = "0" /\ n[2] = "7")
            => calc.out = <<"+", "4", "4">> \o Tail(n)
       /\ (n # <<>> /\ n[1] = "+") => calc.out = n
       /\ (Len(n) >= 2 /\ n[1] = "0" /\ n[2] = "0")
            => calc.out = <<"+">> \o Tail(Tail(n))
       /\ n = <<"0", "7", "9", "1", "1", "1", "2", "3", "4", "5", "6">>
            => calc.out = <<"+", "4", "4", "7", "9", "1", "1", "1", "2", "3", "4", "5", "6">>
       /\ n = <<"+", "1", "5", "5", "5", "1", "2", "3", "4", "5", "6", "7">>
            => calc.out = n
       /\ n = <<"0", "0", "4", "4", "7", "9", "1", "1", "1", "2", "3", "4", "5", "6">>
            => calc.out = <<"+", "4", "4", "7", "9", "1", "1", "1", "2", "3", "4", "5", "6">>

\* a UK mobile number written with parentheses and a space was formatted
UkMobileFormatted ==
  /\ calc.fn = "format_phone_number"
  /\ calc.arg = <<"(", "0", "7", "9", ")", " ", "1", "1", "1", "2", "3", "4", "5", "6">>
  /\ calc.out = <<"+", "4", "4", "7", "9", "1", "1", "1", "2", "3", "4", "5", "6">>

\* C25: in the response of a turn that was computed (not replayed from the
\* cache, not answered by a special-case handler), tools_used is empty when
\* the model's reply declares no tool call, and every name in it is the
\* label of a tool call that was dispatched in this turn
ToolsUsedWereDispatched ==
  (llm.res.status = 200 /\ ~llm.res.from_cache /\ llm.res.special = "none")
    => /\ llm.res.requested = <<>> => llm.res.payload.tools_used = <<>>
       /\ \A i \in DOMAIN llm.res.payload.tools_used :
            \E j \in DOMAIN llm.res.dispatched :
               LET name == llm.res.requested[llm.res.dispatched[j]].name
               IN /\ name \in DOMAIN ToolLabel
                  /\ ToolLabel[name] = llm.res.payload.tools_used[i]

(***************************************************************************)
(* The order of the gates of SecurityMiddleware                            *)
(***************************************************************************)
\* the first gate that turns the request of response r away
GateOf(r) ==
  IF r.rl = "refuse" THEN "rate"
  ELSE IF CsrfApplies(r.req) /\ ~_validate_csrf_token(r.req) THEN "csrf"
  ELSE IF r.req.path \notin skip_auth_paths
          /\ _validate_token(r.req, r.revErr, r.at) = NoUser THEN "auth"
  ELSE "handler"

GateStatus == [rate |-> 429, csrf |-> 403, auth |-> 401]

\* r is the answer of the first gate that turns its request away, and then
\* the handler has not run and no user was attached
InOrder(r) ==
  /\ r.gate = GateOf(r)
  /\ r.gate # "handler" =>
       (r.status = GateStatus[r.gate] /\ ~r.handler /\ r.user = NoUser)

\* the counter of the key of response r after the step is one more than
\* before it
UnitConsumed(r) ==
  LET k == <<_get_client_ip(r.req), r.req.path>>
  IN (IF Live(rate'[k].exp, now) THEN rate'[k].count ELSE 0)
       = RateCount(k[1], k[2], now) + 1

\* C26 as stated: every request is answered by the first of the gates
\* rate-limit, CSRF, auth that turns it away (429 before 403 before 401)
\* without the handler, and a request on a rate-limited route that passes
\* the rate gate has raised its counter by one, also when a later gate
\* rejects it
GatesInOrderAndUnitConsumed ==
  [][(last = NoResponse /\ last' # NoResponse)
       => /\ InOrder(last')
          /\ last'.rl = "admit" => UnitConsumed(last')]_vars

\* C26 amended: the same, the unit being consumed when the middleware has a
\* store client and every call of the counter store answered
GatesInOrderAndUnitConsumedByCounter ==
  [][(last = NoResponse /\ last' # NoResponse)
       => /\ InOrder(last')
          /\ (/\ last'.rl = "admit" /\ "no_redis" \notin last'.errs
              /\ last'.raised = {})
               => UnitConsumed(last')]_vars

\* a password-reset request was admitted and counted by the rate gate and
\* then turned away by the CSRF gate
CountedThenRejectedByCsrf ==
  /\ last.gate = "csrf" /\ last.status = 403
  /\ last.rl = "admit" /\ last.errs = {}
  /\ last.req.path = "/api/auth/request-reset"
  /\ RateCount(_get_client_ip(last.req), last.req.path, now) > 1

\* C27: a request whose bearer token has its jti in the revocation set when
\* _validate_token runs gets no claims from it, whether or not the lookup of
\* the revocation set answers
RevokedTokenIsNeverAccepted ==
  (/\ last.gate \in {"auth", "handler"}
   /\ last.req.path \notin skip_auth_paths
   /\ last.req.bearer # NoToken
   /\ RevokedLive(last.req.bearer.jti, last.at))
  => (last.user = NoUser /\ last.status = 401 /\ ~last.handler)

\* C30: a request to the LLM service during whose quota check a call of the
\* counter store raises, and which the quota does not refuse, is processed
\* and answered 200
QuotaCheckFailsOpen ==
  (/\ llm.res.status # 0
   /\ llm.res.errs \cap {"count_get", "count_incr", "count_ttl", "count_expire"} # {}
   /\ llm.res.status # 429)
  => llm.res.status = 200

\* ---------------------------------------------------------------------
\* Chat turns of the gateway that overlap: every awaited call of a turn is a
\* step, and find_one and the write of store_message are two steps of the
\* conversation service. All turns are on the thread a client names.

\* chat turns started in one behaviour
MaxStarted == 3

TurnThread == "tA"
TurnData == ChatData(TurnThread, "hello", TRUE)
TurnUserMessage == Message("user", TextOf(TurnData.content), now, NoMetadata)

TurnAnswerOf(status, calls, res) ==
  [status |-> status, calls |-> calls, result |-> res,
   thread_id |-> TurnThread, req_thread_id |-> TurnData.thread_id]

\* mutant: the gateway returns what /update answered when it is not 200
TurnAnswer_checked(s3, calls, result) ==
  IF s3 = 0 THEN TurnAnswerOf(500, calls, NoPayload)
  ELSE IF s3 # 200 THEN TurnAnswerOf(s3, calls, NoPayload)
  ELSE TurnAnswerOf(200, calls, result)
\* await client.post(".../update", ...); return JSONResponse(content=result):
\* the answer of /update is not looked at, a call that raises gives 500
TurnAnswer(s3, calls, result) ==
  IF s3 = 0 THEN TurnAnswerOf(500, calls, NoPayload)
  ELSE TurnAnswerOf(200, calls, result)

TurnFrame == UNCHANGED <<now, ticks, authState>>

\* store_message up to its find_one
TurnFind(p) ==
  /\ Idle
  /\ chat.running[p].pc = "idle"
  /\ chat.turns < MaxStarted
  /\ LET conversation == FindThread(conv.threads, TurnThread)
     IN chat' = [chat EXCEPT
          !.turns = @ + 1,
          !.running[p] =
            [NoTurn EXCEPT
               !.pc = "found",
               !.existed = conversation # {},
               !.found = IF conversation = {} THEN <<>>
                         ELSE (CHOOSE c \in conversation : TRUE).messages]]
  /\ UNCHANGED <<conv, llm>>
  /\ TurnFrame

\* store_message after its find_one: update_one with $push when find_one
\* returned a thread, insert_one otherwise; the unique index on thread_id
\* makes insert_one raise when the thread exists by now, and the gateway
\* returns the 500 of /store
TurnWrite(p) ==
  LET turn == chat.running[p]
      exists == FindThread(conv.threads, TurnThread) # {}
      duplicate == ~turn.existed /\ exists
      threads1 ==
        IF turn.existed
        THEN PushMessage(conv.threads, TurnThread, TurnUserMessage)
        ELSE IF exists THEN conv.threads
        ELSE conv.threads \cup {[thread_id |-> TurnThread,
                                 messages |-> <<TurnUserMessage>>]}
      found1 == FindThread(threads1, TurnThread)
      status == IF duplicate THEN 500 ELSE 200
  IN /\ Idle
     /\ turn.pc = "found"
     /\ conv' = [conv EXCEPT
          !.threads = threads1,
          !.calls = @ + 1,
          !.log = IF duplicate THEN @
                  ELSE [@ EXCEPT ![TurnThread] = Append(@, TurnUserMessage)]]
     /\ chat' = [chat EXCEPT
          !.running[p] =
            IF duplicate
            THEN [NoTurn EXCEPT !.store_status = status, !.gone = turn.gone]
            ELSE [turn EXCEPT
                    !.pc = "stored",
                    !.store_status = status,
                    !.history = LastN(Append(turn.found, TurnUserMessage),
                                      STORE_HISTORY_LIMIT),
                    !.after = IF found1 = {} THEN <<>>
                              ELSE (CHOOSE c \in found1 : TRUE).messages],
          !.res = IF duplicate
                  THEN TurnAnswerOf(500, <<ChatCall("store", 500)>>, NoPayload)
                  ELSE @,
          !.undisturbed = @ /\ ~duplicate]
     /\ UNCHANGED llm
     /\ TurnFrame

\* the /process call of the turn, with the history /store answered
TurnProcess(p) ==
  LET turn == chat.running[p]
  IN /\ Idle
     /\ turn.pc = "stored"
     /\ \E reply \in {Reply(200, "plain", <<>>, TRUE), Reply(500, "", <<>>, TRUE)} :
          \E l1 \in {Served(llm, [query |-> TurnData.content,
                                  thread_id |-> TurnThread,
                                  mode |-> "explore",
                                  conversation_history |-> turn.history,
                                  image_context |-> "",
                                  include_reasoning |-> TurnData.include_reasoning],
                            reply, "200", {}, now)} :
            LET s2 == l1.res.status
                calls == <<ChatCall("store", 200), ChatCall("process", s2)>>
            IN /\ llm' = [l1 EXCEPT !.res = NoLlmRes]
               /\ chat' = [chat EXCEPT
                    !.running[p] =
                      IF CallFailed(s2) THEN NoTurn
                      ELSE [turn EXCEPT !.pc = "processed",
                                        !.result = l1.res.payload],
                    !.res = IF CallFailed(s2)
                            THEN TurnAnswerOf(s2, calls, NoPayload) ELSE @,
                    !.undisturbed = @ /\ ~CallFailed(s2)]
     /\ UNCHANGED conv
     /\ TurnFrame

\* the /update call of the turn and the turn's answer
TurnUpdate(p) ==
  LET turn == chat.running[p]
      result == turn.result
  IN /\ Idle
     /\ turn.pc = "processed"
     /\ \E tr \in {"answered", "unreachable"} :
          \E cv2 \in {IF tr = "unreachable" THEN conv
                      ELSE Updated(conv, TurnThread, result.message,
                                   [tools_used |-> result.tools_used,
                                    image_urls |-> result.image_urls,
                                    reasoning |-> result.reasoning],
                                   {}, now)} :
            LET s3 == Seen(tr, cv2.res.status)
                calls == <<ChatCall("store", 200), ChatCall("process", 200),
                           ChatCall("update", s3)>>
            IN /\ conv' = [cv2 EXCEPT !.res = NoConvRes]
               /\ chat' = [chat EXCEPT
                    !.running[p] = [NoTurn EXCEPT !.gone = turn.gone],
                    !.res = TurnAnswer(s3, calls, result),
                    !.undisturbed = @ /\ s3 = 200]
     /\ UNCHANGED llm
     /\ TurnFrame

\* delete_conversation, or the TTL index on last_updated, removes the thread
\* while turns run
ThreadRemoved ==
  /\ Idle
  /\ \E c \in conv.threads :
       conv' = [conv EXCEPT !.threads = @ \ {c}, !.log[c.thread_id] = <<>>]
  /\ chat' = [chat EXCEPT
       !.running = [p \in TurnIds |->
                      IF @[p].pc = "idle" THEN @[p]
                      ELSE [@[p] EXCEPT !.gone = TRUE]],
       !.undisturbed = FALSE]
  /\ UNCHANGED llm
  /\ TurnFrame

TurnStep == \E p \in TurnIds : TurnFind(p) \/ TurnWrite(p) \/ TurnProcess(p) \/ TurnUpdate(p)
NextTurn == TurnStep \/ ThreadRemoved \/ Deliver
SpecTurn == Init /\ [][NextTurn]_vars

\* C31: a chat turn whose /update call answered 404, because the thread was
\* removed after the turn's /store call, is answered with status 200 and the
\* payload /process returned
RemovedThreadTurnIsAnswered ==
  (/\ Len(chat.res.calls) = 3
   /\ chat.res.calls[3] = ChatCall("update", 404))
    => /\ chat.res.status = 200
       /\ chat.res.result # NoPayload
       /\ chat.res.result.message # <<>>

\* a turn was answered 200 although its thread was gone at /update
TurnAnsweredAfterRemoval ==
  /\ Len(chat.res.calls) = 3
  /\ chat.res.calls[1] = ChatCall("store", 200)
  /\ chat.res.calls[3] = ChatCall("update", 404)
  /\ chat.res.status = 200
  /\ FindThread(conv.threads, chat.res.thread_id) = {}

\* C32: when the chat endpoint answers 200, the last message of the turn's
\* thread in the store is the assistant message of the turn, with the
\* tools_used and image_urls of the result as metadata
AnsweredTurnIsAppended ==
  chat.res.status = 200 =>
    \E c \in FindThread(conv.threads, chat.res.thread_id) :
      /\ Len(c.messages) > 0
      /\ LET m == c.messages[Len(c.messages)]
         IN /\ m.role = "assistant"
            /\ m.content = chat.res.result.message
            /\ m.metadata.tools_used = chat.res.result.tools_used
            /\ m.metadata.image_urls = chat.res.result.image_urls

\* C38: two /store calls that overlap on a thread_id which neither found, with
\* no thread removed meanwhile, both answer 200 and leave a thread that holds
\* both user messages
OverlappingStoresBothSucceed ==
  \A p, q \in TurnIds :
    LET tp == chat.running[p]
        tq == chat.running[q]
    IN (/\ p # q
        /\ tp.store_status # 0 /\ tq.store_status # 0
        /\ ~tp.existed /\ ~tq.existed
        /\ ~tp.gone /\ ~tq.gone)
         => /\ tp.store_status = 200 /\ tq.store_status = 200
            /\ \E c \in FindThread(conv.threads, TurnThread) :
                 Cardinality({i \in DOMAIN c.messages :
                                c.messages[i].role = "user"}) >= 2

\* C39: with no failed turn and no removed thread, once the overlapping turns
\* have ended the roles of the thread's messages alternate user, assistant;
\* and the history /store answers to a turn holds every message the thread
\* held before the turn's user message (up to the limit of /store)
TurnsKeepOrderAndHistory ==
  /\ (/\ chat.undisturbed
      /\ \A p \in TurnIds : chat.running[p].pc = "idle")
       => \A c \in conv.threads : \A i \in DOMAIN c.messages :
            c.messages[i].role = IF i % 2 = 1 THEN "user" ELSE "assistant"
  /\ \A p \in TurnIds :
       LET turn == chat.running[p]
       IN (turn.pc \in {"stored", "processed"} /\ ~turn.gone)
            => \/ Len(turn.history) >= Len(turn.after)
               \/ Len(turn.history) >= STORE_HISTORY_LIMIT

\* C33: the thread_id field of a /process response answered 200, when the
\* response has one, is the thread_id of its request, and the response
\* carries a reasoning only when its request set include_reasoning; responses
\* served from the cache included
ResponseBelongsToRequest ==
  llm.res.status = 200 =>
    /\ llm.res.payload.thread_id # "" =>
         llm.res.payload.thread_id = llm.res.req.thread_id
    /\ llm.res.payload.reasoning # "" => llm.res.req.include_reasoning

\* C34: a /process response that reports an SMS as sent comes from a request
\* during which the notification service was called, by the direct handler
\* or by a dispatched send_sms tool call
SmsReportedWasSent ==
  (/\ llm.res.status = 200
   /\ \E k \in DOMAIN llm.res.payload.message :
        llm.res.payload.message[k] = ResultPart("send_sms", llm.res.payload.message[k].n))
    => \/ llm.res.special = "send-sms"
       \/ \E j \in DOMAIN llm.res.dispatched :
            llm.res.requested[llm.res.dispatched[j]].name = "send_sms"

\* C35: a /process request that arrives while the store is healthy and the
\* cache holds a live entry for its key is answered 200 from the cache and
\* leaves the day's request counter as it was
CacheHitSkipsQuota ==
  [][(/\ llm.res = NoLlmRes /\ llm'.res # NoLlmRes
      /\ llm'.res.errs = {}
      /\ CacheEntries(llm.cache, CacheKey(llm'.res.req), now) # {})
       => /\ llm'.res.status = 200
          /\ llm'.res.from_cache
          /\ CounterValue(llm'.counter, now) = CounterValue(llm.counter, now)]_vars

\* C36: the jti field of every record of the token collection is the jti
\* claim of the record's token
RecordJtiIsTokenJti ==
  \A r \in tokens_collection : r.jti = r.token.jti

\* C37: a refresh call that is answered 401 although the presented token is
\* on record and its user exists leaves the token collection and the
\* revocation set as they were
FailedRefreshChangesNothing ==
  [][(/\ hres = NoHResult /\ hres'.op = "refresh" /\ hres'.status = 401
      /\ \E r \in tokens_collection :
           /\ r.token = hres'.presented
           /\ \E u \in users_collection : u._id = r.user_id)
       => /\ tokens_collection' = tokens_collection
          /\ revoked' = revoked]_vars

====
